---- MODULE Spec2Model ----
(***************************************************************************)
(* Monitool backend (FastAPI): the API-key gate, the auth flows, the       *)
(* technician / toolbox / access-log handlers, the dashboard aggregation   *)
(* and the local image store, as one state machine.                        *)
(*                                                                         *)
(* Strings the code inspects (URL paths, file names) are sequences of      *)
(* tokens with "/" as a token of its own, so that startswith, prefix       *)
(* stripping, route matching and path joining are computed, not assumed.   *)
(* Opaque strings (ids, user names, keys) are TLA+ strings.                *)
(***************************************************************************)
EXTENDS Integers, Sequences, FiniteSets, TLC

VARIABLES
    users,            \* table users: id -> row
    technicians,      \* table technicians: id -> row
    toolboxes,        \* table toolboxes: id -> row
    inventory_items,  \* table inventory_items: id -> row
    access_logs,      \* table access_logs: id -> row
    fs,               \* the file system: [files: path -> bytes, dirs: set of paths]
    seq,              \* how many uuid4 values each table / the store has drawn
    now,              \* the server clock, minutes since the epoch (UTC)
    issued,           \* the token pair the client holds from its last login
    resp,             \* the answer to the last request
    tasks,            \* the requests in flight: task -> where its handler stands
    pi                \* the Raspberry Pi client: where its flow stands

vars == <<users, technicians, toolboxes, inventory_items, access_logs,
          fs, seq, now, issued, resp, tasks, pi>>

store == <<users, technicians, toolboxes, inventory_items, access_logs>>

-----------------------------------------------------------------------------
(* Bounds of the model *)

MaxUsers == 2
MaxStoreRows == 5
MaxDashRows == 6
MaxGateRows == 2
MaxUploads == 2
MaxUniqueRows == 3
MaxNfcRows == 2
MaxUpdateSteps == 2
MaxByIdRows == 3
MaxCascadeRows == 5
MaxLogSteps == 6
MaxSaves == 2
MaxRegistrations == 2
MaxWriters == 2
MaxPiRows == 4
MaxUploadsInFlight == 2
MaxRacingUploads == 2
MaxInFlight == 2
MaxParentRows == 4
MaxImmutableSteps == 6
MaxDiskUploads == 2
MaxTokenLifetimes == 2
MaxDays == 1

-----------------------------------------------------------------------------
(* Values *)

\* Python's None, in the type of the value it stands in for
\* Every record lists its fields in one order throughout the module (the
\* order in which the names first appear), so that TLC's workers never
\* reorder a record another worker is reading.
None == "None"                  \* where a string is expected
NoneStr == <<"None">>           \* where a string the code inspects is expected
NoneRec == [none |-> TRUE]      \* where an object is expected
NoTime == 0 - 1                 \* where a datetime is expected

MinutesPerDay == 24 * 60

\* app/core/config.py
API_V1_STR == <<"/", "api", "/", "v1">>
API_KEY == "your-api-key-change-this-in-production"
ACCESS_TOKEN_EXPIRE_MINUTES == 15
REFRESH_TOKEN_EXPIRE_DAYS == 7
SECRET_KEY == "your-secret-key-change-this-in-production"
UPLOAD_DIR == << <<"data">>, <<"uploads">> >>   \* "./data/uploads", as path segments

StartsWith(s, p) == Len(s) >= Len(p) /\ SubSeq(s, 1, Len(p)) = p

Range(f) == {f[x] : x \in DOMAIN f}

\* uuid.uuid4(): a value no earlier call returned; the n-th draw of a kind
Uuid(kind, n) == kind \o ToString(n)

-----------------------------------------------------------------------------
(* The API-key gate *)

public_paths ==
    { <<"/", "up">>, <<"/">>, <<"/", "health">>, <<"/", "docs">>,
      <<"/", "redoc">>, <<"/", "openapi.json">> }

UPLOADS_PREFIX == <<"/", "uploads", "/">>

\* APIKeyMiddleware.dispatch: "call_next" or "401"
dispatch_MissingKeyPasses(request) ==
    IF request.path \in public_paths THEN "call_next"
    ELSE IF StartsWith(request.path, UPLOADS_PREFIX) THEN "call_next"
    ELSE IF StartsWith(request.path, API_V1_STR \o <<"/", "openapi.json">>)
         THEN "call_next"
    ELSE IF request.method = "OPTIONS" THEN "call_next"
    ELSE IF request.key # None /\ request.key # API_KEY THEN "401"
    ELSE "call_next"

dispatch_HealthGuarded(request) ==
    IF request.path \in public_paths \ {<<"/", "health">>} THEN "call_next"
    ELSE IF StartsWith(request.path, UPLOADS_PREFIX) THEN "call_next"
    ELSE IF StartsWith(request.path, API_V1_STR \o <<"/", "openapi.json">>)
         THEN "call_next"
    ELSE IF request.method = "OPTIONS" THEN "call_next"
    ELSE IF request.key # API_KEY THEN "401"
    ELSE "call_next"

dispatch(request) ==
    IF request.path \in public_paths THEN "call_next"
    ELSE IF StartsWith(request.path, UPLOADS_PREFIX) THEN "call_next"
    ELSE IF StartsWith(request.path, API_V1_STR \o <<"/", "openapi.json">>)
         THEN "call_next"
    ELSE IF request.method = "OPTIONS" THEN "call_next"
    ELSE IF request.key # API_KEY THEN "401"
    ELSE "call_next"

-----------------------------------------------------------------------------
(* Routing: Starlette matches the routes in the order they were added; a   *)
(* path parameter {x} matches one non-empty segment without "/".           *)

RECURSIVE Split(_)
\* the segments of a string between its "/" tokens
Split(s) ==
    IF s = <<>> THEN << <<>> >>
    ELSE IF Head(s) = "/" THEN << <<>> >> \o Split(Tail(s))
    ELSE LET rest == Split(Tail(s))
         IN  << <<Head(s)>> \o Head(rest) >> \o Tail(rest)

Param == <<"{}">>

Lit(s) == [i \in 1..Len(s) |-> <<s[i]>>]

V1(segs) == <<<<"api">>, <<"v1">>>> \o segs

\* each route: <<method, pattern, name>>
routes == <<
    <<"GET", Lit(<<"up">>), "healthcheck">>,
    <<"GET", V1(Lit(<<"openapi.json">>)), "openapi">>,
    <<"GET", Lit(<<"docs">>), "docs">>,
    <<"GET", Lit(<<"redoc">>), "redoc">>,
    <<"POST", V1(Lit(<<"auth", "register">>)), "register">>,
    <<"POST", V1(Lit(<<"auth", "login">>)), "login">>,
    <<"GET", V1(Lit(<<"users">>)), "get_users">>,
    <<"POST", V1(Lit(<<"technicians">>)), "create_technician">>,
    <<"GET", V1(Lit(<<"technicians">>)), "get_technicians">>,
    <<"GET", V1(Lit(<<"technicians", "by-nfc">>) \o <<Param>>), "get_technician_by_nfc">>,
    <<"PUT", V1(Lit(<<"technicians">>) \o <<Param>>), "update_technician">>,
    <<"DELETE", V1(Lit(<<"technicians">>) \o <<Param>>), "delete_technician">>,
    <<"POST", V1(Lit(<<"toolboxes">>)), "create_toolbox">>,
    <<"GET", V1(Lit(<<"toolboxes">>)), "get_toolboxes">>,
    <<"GET", V1(Lit(<<"toolboxes">>) \o <<Param>>), "get_toolbox">>,
    <<"PUT", V1(Lit(<<"toolboxes">>) \o <<Param>>), "update_toolbox">>,
    <<"DELETE", V1(Lit(<<"toolboxes">>) \o <<Param>>), "delete_toolbox">>,
    <<"POST", V1(Lit(<<"access-logs">>)), "create_access_log">>,
    <<"GET", V1(Lit(<<"access-logs">>)), "get_access_logs">>,
    <<"DELETE", V1(Lit(<<"access-logs">>) \o <<Param>>), "delete_access_log">>,
    <<"GET", V1(Lit(<<"dashboard", "stats">>)), "get_dashboard_stats">>,
    <<"POST", V1(Lit(<<"images", "upload">>)), "upload_image">>,
    <<"GET", Lit(<<"uploads">>) \o <<Param, Param>>, "get_uploaded_file">>,
    <<"DELETE", V1(Lit(<<"images">>)), "delete_image">>,
    <<"GET", Lit(<<"health">>), "health_check">>,
    <<"GET", << <<>> >>, "root">>
>>

\* whether the path matches the route's pattern
PathMatches(pattern, path) ==
    /\ path # <<>>
    /\ Head(path) = "/"
    /\ LET segs == Split(Tail(path))
       IN  /\ Len(segs) = Len(pattern)
           /\ \A i \in 1..Len(segs) :
                 IF pattern[i] = Param THEN segs[i] # <<>>
                                       ELSE segs[i] = pattern[i]

\* the values of the path parameters, in order
RECURSIVE PathParams(_, _)
PathParams(pattern, segs) ==
    IF pattern = <<>> THEN <<>>
    ELSE (IF Head(pattern) = Param THEN <<Head(segs)>> ELSE <<>>)
         \o PathParams(Tail(pattern), Tail(segs))

\* the route that serves the request: its name and path parameters, or the
\* router's own 404 / 405
route(request) ==
    LET full == {i \in 1..Len(routes) :
                    /\ PathMatches(routes[i][2], request.path)
                    /\ routes[i][1] = request.method}
        partial == {i \in 1..Len(routes) :
                    PathMatches(routes[i][2], request.path)}
    IN  IF full # {}
        THEN LET i == CHOOSE i \in full : \A j \in full : i <= j
             IN  [name |-> routes[i][3],
                  params |-> PathParams(routes[i][2], Split(Tail(request.path)))]
        ELSE IF partial # {} THEN [name |-> "405", params |-> <<>>]
        ELSE [name |-> "404", params |-> <<>>]

-----------------------------------------------------------------------------
(* Answers *)

Response(request, handler, status, detail, body) ==
    [request |-> request, handler |-> handler, status |-> status,
     detail |-> detail, body |-> body]

\* a handler raising HTTPException before it changed anything
Raise(request, handler, status, detail) ==
    /\ resp' = Response(request, handler, status, detail, NoneRec)
    /\ UNCHANGED <<store, fs, seq, now, issued>>

\* a handler that only reads
Reply(request, handler, body) ==
    /\ resp' = Response(request, handler, 200, "", body)
    /\ UNCHANGED <<store, fs, seq, now, issued>>

-----------------------------------------------------------------------------
(* Credential utilities (app/core/security.py is not among the sources;    *)
(* modelled from the specification, section 4.1)                           *)

\* hashPassword: one-way; the hash is not the plain text
get_password_hash(plain) == [alg |-> "bcrypt", of |-> plain]

verify_password(plain, hash) == hash = get_password_hash(plain)

create_access_token(data) ==
    [sub |-> data.sub, exp |-> now + ACCESS_TOKEN_EXPIRE_MINUTES,
     type |-> "access", sig |-> SECRET_KEY]

create_refresh_token(data) ==
    [sub |-> data.sub, exp |-> now + REFRESH_TOKEN_EXPIRE_DAYS * MinutesPerDay,
     type |-> "refresh", sig |-> SECRET_KEY]

Expired(token) == now > token.exp

\* verifyToken: the claims, or None on expiry, bad signature, malformed token
verify_token(token) ==
    IF token.sig # SECRET_KEY \/ Expired(token) THEN NoneRec
    ELSE [sub |-> token.sub, exp |-> token.exp, type |-> token.type]

-----------------------------------------------------------------------------
(* Users *)

\* db.query(User).filter(<column> == value).first()
UsersWhere(column, value) == {id \in DOMAIN users : users[id][column] = value}

First(S) == IF S = {} THEN None ELSE CHOOSE x \in S : TRUE

\* UserResponse: the public profile, without the password hash
UserResponse(id, row) ==
    [id |-> id, username |-> row.username, email |-> row.email,
     is_active |-> row.is_active, last_login |-> row.last_login]

\* get_current_user(token): [status, detail, user]
get_current_user_FirstUser(token) ==
    LET payload == verify_token(token)
        user == First(DOMAIN users)
    IN  IF payload = NoneRec
        THEN [status |-> 401, detail |-> "Could not validate credentials", user |-> None]
        ELSE IF payload.sub = None
        THEN [status |-> 401, detail |-> "Could not validate credentials", user |-> None]
        ELSE IF user = None \/ ~users[user].is_active
        THEN [status |-> 401, detail |-> "User not found or inactive", user |-> None]
        ELSE [status |-> 200, detail |-> "", user |-> user]

get_current_user_IgnoresInactive(token) ==
    LET payload == verify_token(token)
    IN  IF payload = NoneRec
        THEN [status |-> 401, detail |-> "Could not validate credentials", user |-> None]
        ELSE LET user_id == payload.sub
                 user == First(UsersWhere("id", user_id))
             IN  IF user_id = None
                 THEN [status |-> 401, detail |-> "Could not validate credentials", user |-> None]
                 ELSE IF user = None
                 THEN [status |-> 401, detail |-> "User not found or inactive", user |-> None]
                 ELSE [status |-> 200, detail |-> "", user |-> user]

get_current_user(token) ==
    LET payload == verify_token(token)
    IN  IF payload = NoneRec
        THEN [status |-> 401, detail |-> "Could not validate credentials", user |-> None]
        ELSE LET user_id == payload.sub
                 user == First(UsersWhere("id", user_id))
             IN  IF user_id = None
                 THEN [status |-> 401, detail |-> "Could not validate credentials", user |-> None]
                 ELSE IF user = None \/ ~users[user].is_active
                 THEN [status |-> 401, detail |-> "User not found or inactive", user |-> None]
                 ELSE [status |-> 200, detail |-> "", user |-> user]

\* POST /api/v1/auth/register
register_NoEmailCheck(request, user_data) ==
    IF UsersWhere("username", user_data.username) # {}
    THEN Raise(request, "register", 400, "Username already registered")
    ELSE LET id == Uuid("user-", seq.users + 1)
             new_user == [id |-> id,
                          username |-> user_data.username,
                          email |-> user_data.email,
                          is_active |-> TRUE,
                          last_login |-> NoTime,
                          password_hash |-> get_password_hash(user_data.password)]
         IN  /\ users' = (id :> new_user) @@ users
             /\ seq' = [seq EXCEPT !.users = @ + 1]
             /\ resp' = Response(request, "register", 200, "", UserResponse(id, new_user))
             /\ UNCHANGED <<technicians, toolboxes, inventory_items, access_logs,
                            fs, now, issued>>

register(request, user_data) ==
    IF UsersWhere("username", user_data.username) # {}
    THEN Raise(request, "register", 400, "Username already registered")
    ELSE IF UsersWhere("email", user_data.email) # {}
    THEN Raise(request, "register", 400, "Email already registered")
    ELSE LET id == Uuid("user-", seq.users + 1)
             new_user == [id |-> id,
                          username |-> user_data.username,
                          email |-> user_data.email,
                          is_active |-> TRUE,
                          last_login |-> NoTime,
                          password_hash |-> get_password_hash(user_data.password)]
         IN  /\ users' = (id :> new_user) @@ users
             /\ seq' = [seq EXCEPT !.users = @ + 1]
             /\ resp' = Response(request, "register", 200, "", UserResponse(id, new_user))
             /\ UNCHANGED <<technicians, toolboxes, inventory_items, access_logs,
                            fs, now, issued>>

\* POST /api/v1/auth/login
login_StampsBeforeCheck(request, credentials) ==
    LET user == First(UsersWhere("username", credentials.username))
    IN  IF user = None
        THEN Raise(request, "login", 401, "Incorrect username or password")
        ELSE IF ~verify_password(credentials.password, users[user].password_hash)
                \/ ~users[user].is_active
        THEN /\ users' = [users EXCEPT ![user].last_login = now]
             /\ resp' = Response(request, "login", 401, "Incorrect username or password", NoneRec)
             /\ UNCHANGED <<technicians, toolboxes, inventory_items, access_logs,
                            fs, seq, now, issued>>
        ELSE LET body == [access_token |-> create_access_token([sub |-> user]),
                          refresh_token |-> create_refresh_token([sub |-> user]),
                          token_type |-> "bearer"]
             IN  /\ users' = [users EXCEPT ![user].last_login = now]
                 /\ resp' = Response(request, "login", 200, "", body)
                 /\ issued' = body
                 /\ UNCHANGED <<technicians, toolboxes, inventory_items, access_logs,
                                fs, seq, now>>

login(request, credentials) ==
    LET user == First(UsersWhere("username", credentials.username))
    IN  IF user = None
           \/ ~verify_password(credentials.password, users[user].password_hash)
        THEN Raise(request, "login", 401, "Incorrect username or password")
        ELSE IF ~users[user].is_active
        THEN Raise(request, "login", 401, "User account is inactive")
        ELSE LET body == [access_token |-> create_access_token([sub |-> user]),
                          refresh_token |-> create_refresh_token([sub |-> user]),
                          token_type |-> "bearer"]
             IN  /\ users' = [users EXCEPT ![user].last_login = now]
                 /\ resp' = Response(request, "login", 200, "", body)
                 /\ issued' = body
                 /\ UNCHANGED <<technicians, toolboxes, inventory_items, access_logs,
                                fs, seq, now>>

-----------------------------------------------------------------------------
(* File system and pathlib.  A path is a sequence of segments, each a      *)
(* sequence of tokens; a path from the root directory starts with the      *)
(* segment <<"/">>, any other is relative to the working directory.        *)

NonePath == <<NoneStr>>         \* None where a Path is expected
ROOT == <<"/">>
DOTDOT == <<"..">>
DOT == <<".">>

\* a path with its ".." segments resolved, as the operating system does
RECURSIVE Normalize(_, _)
Normalize(done, todo) ==
    IF todo = <<>> THEN done
    ELSE IF Head(todo) = DOTDOT
         THEN IF done = <<>> THEN Normalize(<<DOTDOT>>, Tail(todo))
              ELSE IF done[Len(done)] = ROOT THEN Normalize(done, Tail(todo))
              ELSE IF done[Len(done)] = DOTDOT THEN Normalize(done \o <<DOTDOT>>, Tail(todo))
              ELSE Normalize(SubSeq(done, 1, Len(done) - 1), Tail(todo))
         ELSE Normalize(done \o <<Head(todo)>>, Tail(todo))

\* the segments pathlib keeps of a string: empty segments and "." are dropped
PathParts(s) == SelectSeq(Split(s), LAMBDA seg : seg # <<>> /\ seg # DOT)

\* Path(base) / s: an absolute s replaces base
PathJoin(base, s) ==
    IF s # <<>> /\ Head(s) = "/" THEN <<ROOT>> \o PathParts(s)
    ELSE base \o PathParts(s)

Prefixes(path) == {SubSeq(path, 1, n) : n \in 0..Len(path)}

IsFile(path) == Normalize(<<>>, path) \in DOMAIN fs.files
IsDir(path) == Normalize(<<>>, path) \in fs.dirs
\* Path.exists()
Exists(path) == IsFile(path) \/ IsDir(path)

\* the file system after Path.mkdir(parents=True, exist_ok=True)
Mkdir(path) == [fs EXCEPT !.dirs = @ \union Prefixes(Normalize(<<>>, path))]

ExtTokens == {".jpg", ".jpeg", ".png", ".gif", ".txt"}

\* Path(filename).suffix: the last extension of the final component, if the
\* component is more than that extension
Suffix(filename) ==
    LET parts == PathParts(filename)
        name == IF parts = <<>> THEN <<>> ELSE parts[Len(parts)]
    IN  IF Len(name) >= 2 /\ name[Len(name)] \in ExtTokens
        THEN <<name[Len(name)]>> ELSE <<>>

\* StorageService.save_image: [ok, file_path, file_size, fs]; ok is FALSE
\* when the code raises (a path component is a file)
save_image(file, subfolder) ==
    LET file_extension == IF file.filename # NoneStr /\ file.filename # <<>>
                          THEN Suffix(file.filename) ELSE <<".jpg">>
        unique_filename == <<Uuid("file-", seq.files + 1)>> \o file_extension
        subfolder_path == PathJoin(UPLOAD_DIR, subfolder)
        file_path == Normalize(<<>>, subfolder_path \o <<unique_filename>>)
        made == Mkdir(subfolder_path)
        relative_path == UPLOADS_PREFIX \o subfolder \o <<"/">> \o unique_filename
    IN  IF \E d \in Prefixes(Normalize(<<>>, subfolder_path)) : d \in DOMAIN fs.files
        THEN [fs |-> fs, file_path |-> NoneStr, ok |-> FALSE, file_size |-> 0]
        ELSE [fs |-> [made EXCEPT !.files = (file_path :> file.contents) @@ @],
              file_path |-> relative_path,
              ok |-> TRUE,
              file_size |-> Len(file.contents)]

\* the path under the upload directory a relative URL names
StripUploads(file_path) ==
    IF StartsWith(file_path, UPLOADS_PREFIX)
    THEN SubSeq(file_path, Len(UPLOADS_PREFIX) + 1, Len(file_path))
    ELSE file_path

\* StorageService.delete_image: [ok, fs]; unlink_fails is the operating
\* system refusing the unlink (OSError), which the code swallows
storage_delete_image_MissingOk(file_path, unlink_fails) ==
    LET full_path == PathJoin(UPLOAD_DIR, StripUploads(file_path))
    IN  IF file_path = NoneStr THEN [fs |-> fs, ok |-> FALSE]
        ELSE IF Exists(full_path)
        THEN IF IsFile(full_path) /\ ~unlink_fails
             THEN [fs |-> [fs EXCEPT !.files =
                             [q \in DOMAIN @ \ {Normalize(<<>>, full_path)} |-> @[q]]],
                   ok |-> TRUE]
             ELSE [fs |-> fs, ok |-> FALSE]
        ELSE [fs |-> fs, ok |-> TRUE]

storage_delete_image(file_path, unlink_fails) ==
    LET full_path == PathJoin(UPLOAD_DIR, StripUploads(file_path))
    IN  IF file_path = NoneStr THEN [fs |-> fs, ok |-> FALSE]
        ELSE IF Exists(full_path)
        THEN IF IsFile(full_path) /\ ~unlink_fails
             THEN [fs |-> [fs EXCEPT !.files =
                             [q \in DOMAIN @ \ {Normalize(<<>>, full_path)} |-> @[q]]],
                   ok |-> TRUE]
             ELSE [fs |-> fs, ok |-> FALSE]
        ELSE [fs |-> fs, ok |-> FALSE]

\* StorageService.get_file_path: the path, or NoneStr
get_file_path(relative_path) ==
    LET full_path == PathJoin(UPLOAD_DIR, StripUploads(relative_path))
    IN  IF Exists(full_path) THEN full_path ELSE NonePath

-----------------------------------------------------------------------------
(* Technicians, toolboxes, access logs *)

Where(table, column, value) == {id \in DOMAIN table : table[id][column] = value}

Without(table, ids) == [id \in DOMAIN table \ ids |-> table[id]]

\* response_model: TechnicianResponse and ToolboxResponse require status to
\* be a string; a row whose status is NULL fails the validation of the
\* response (ResponseValidationError, a 500)
Returned(request, handler, row) ==
    IF row.status = None
    THEN Response(request, handler, 500, "Internal Server Error", NoneRec)
    ELSE Response(request, handler, 200, "", row)

\* a handler that only reads, returning a row through its response_model
ReplyRow(request, handler, row) ==
    /\ resp' = Returned(request, handler, row)
    /\ UNCHANGED <<store, fs, seq, now, issued>>

\* the unset value of a field of an update schema
Unset(field) == IF field = "image_url" THEN NoneStr ELSE None

\* model_dump() without exclude_unset: every field of the schema, unset ones
\* at their default
Assign_AllFields(row, data) ==
    [field \in DOMAIN row |->
        IF field \in DOMAIN data THEN data[field]
        ELSE IF field \in {"id", "raspberry_pi_serial", "updated_at"} THEN row[field]
        ELSE Unset(field)]

\* for field, value in data.model_dump(exclude_unset=True).items():
\*     setattr(row, field, value)
Assign(row, data) ==
    [field \in DOMAIN row |->
        IF field \in DOMAIN data THEN data[field] ELSE row[field]]

\* the UPDATE of the commit: sent when a column changed, and then
\* onupdate=func.now() stamps updated_at
Flushed(row, assigned) ==
    IF assigned = row THEN row ELSE [assigned EXCEPT !.updated_at = now]

\* a table without constraints: every commit goes through
Refused_Never(table, id, row, required, unique) == FALSE

\* the constraints of a table that fail the commit (IntegrityError, which
\* no handler catches): NULL in a nullable=False column, a value of a
\* unique column that another row holds
Refused(table, id, row, required, unique) ==
    \/ \E column \in required : row[column] = None
    \/ \E column \in unique, other \in DOMAIN table \ {id} :
          /\ row[column] # None
          /\ table[other][column] = row[column]

\* POST /api/v1/technicians
create_technician(request, technician_data) ==
    IF Where(technicians, "nfc_card_uid", technician_data.nfc_card_uid) # {}
    THEN Raise(request, "create_technician", 400, "NFC card UID already registered")
    ELSE IF Where(technicians, "employee_id", technician_data.employee_id) # {}
    THEN Raise(request, "create_technician", 400, "Employee ID already registered")
    ELSE LET id == Uuid("tech-", seq.technicians + 1)
             new_technician == [status |-> "active",
                                id |-> id,
                                updated_at |-> now,
                                nfc_card_uid |-> technician_data.nfc_card_uid,
                                employee_id |-> technician_data.employee_id]
         IN  /\ technicians' = (id :> new_technician) @@ technicians
             /\ seq' = [seq EXCEPT !.technicians = @ + 1]
             /\ resp' = Response(request, "create_technician", 200, "", new_technician)
             /\ UNCHANGED <<users, toolboxes, inventory_items, access_logs,
                            fs, now, issued>>

\* GET /api/v1/technicians/by-nfc/{nfc_uid}
get_technician_by_nfc(request, nfc_uid) ==
    LET found == Where(technicians, "nfc_card_uid", nfc_uid)
    IN  IF found = {}
        THEN Raise(request, "get_technician_by_nfc", 404, "Technician not found")
        ELSE ReplyRow(request, "get_technician_by_nfc", technicians[First(found)])

\* PUT /api/v1/technicians/{technician_id}
update_technician(request, technician_id, technician_data) ==
    IF technician_id \notin DOMAIN technicians
    THEN Raise(request, "update_technician", 404, "Technician not found")
    ELSE LET assigned == Assign(technicians[technician_id], technician_data)
         IN  IF Refused(technicians, technician_id, assigned,
                        {"nfc_card_uid", "employee_id"}, {"nfc_card_uid", "employee_id"})
             THEN Raise(request, "update_technician", 500, "Internal Server Error")
             ELSE /\ technicians' = [technicians EXCEPT
                                        ![technician_id] = Flushed(@, assigned)]
                  /\ resp' = Returned(request, "update_technician",
                                      technicians'[technician_id])
                  /\ UNCHANGED <<users, toolboxes, inventory_items, access_logs,
                                 fs, seq, now, issued>>

\* the cascade left out: the technician goes, its access logs stay
delete_technician_NoCascade(request, technician_id) ==
    IF technician_id \notin DOMAIN technicians
    THEN Raise(request, "delete_technician", 404, "Technician not found")
    ELSE /\ technicians' = Without(technicians, {technician_id})
         /\ resp' = Response(request, "delete_technician", 200, "",
                             [message |-> "Technician deleted successfully"])
         /\ UNCHANGED <<users, toolboxes, inventory_items, access_logs,
                        fs, seq, now, issued>>

\* DELETE /api/v1/technicians/{technician_id}; Technician.access_logs
\* cascades "all, delete-orphan"
delete_technician(request, technician_id) ==
    IF technician_id \notin DOMAIN technicians
    THEN Raise(request, "delete_technician", 404, "Technician not found")
    ELSE /\ technicians' = Without(technicians, {technician_id})
         /\ access_logs' = Without(access_logs,
                                   Where(access_logs, "technician_id", technician_id))
         /\ resp' = Response(request, "delete_technician", 200, "",
                             [message |-> "Technician deleted successfully"])
         /\ UNCHANGED <<users, toolboxes, inventory_items, fs, seq, now, issued>>

\* POST /api/v1/toolboxes; raspberry_pi_serial is unique in the table only,
\* so a duplicate serial fails at commit (IntegrityError, an unhandled 500)
create_toolbox(request, toolbox_data) ==
    IF Where(toolboxes, "name", toolbox_data.name) # {}
    THEN Raise(request, "create_toolbox", 400, "Toolbox name already exists")
    ELSE IF /\ toolbox_data.raspberry_pi_serial # None
            /\ Where(toolboxes, "raspberry_pi_serial", toolbox_data.raspberry_pi_serial) # {}
    THEN Raise(request, "create_toolbox", 500, "Internal Server Error")
    ELSE LET id == Uuid("tbx-", seq.toolboxes + 1)
             new_toolbox == [name |-> toolbox_data.name,
                             status |-> "operational",
                             id |-> id,
                             updated_at |-> now,
                             raspberry_pi_serial |-> toolbox_data.raspberry_pi_serial,
                             image_url |-> toolbox_data.image_url]
         IN  /\ toolboxes' = (id :> new_toolbox) @@ toolboxes
             /\ seq' = [seq EXCEPT !.toolboxes = @ + 1]
             /\ resp' = Response(request, "create_toolbox", 200, "", new_toolbox)
             /\ UNCHANGED <<users, technicians, inventory_items, access_logs,
                            fs, now, issued>>

\* GET /api/v1/toolboxes/{toolbox_id}
get_toolbox(request, toolbox_id) ==
    IF toolbox_id \notin DOMAIN toolboxes
    THEN Raise(request, "get_toolbox", 404, "Toolbox not found")
    ELSE ReplyRow(request, "get_toolbox", toolboxes[toolbox_id])

\* PUT /api/v1/toolboxes/{toolbox_id}; ToolboxUpdate has no raspberry_pi_serial
update_toolbox(request, toolbox_id, toolbox_data) ==
    IF toolbox_id \notin DOMAIN toolboxes
    THEN Raise(request, "update_toolbox", 404, "Toolbox not found")
    ELSE LET assigned == Assign(toolboxes[toolbox_id], toolbox_data)
         IN  IF Refused(toolboxes, toolbox_id, assigned, {"name"}, {"name"})
             THEN Raise(request, "update_toolbox", 500, "Internal Server Error")
             ELSE /\ toolboxes' = [toolboxes EXCEPT
                                      ![toolbox_id] = Flushed(@, assigned)]
                  /\ resp' = Returned(request, "update_toolbox", toolboxes'[toolbox_id])
                  /\ UNCHANGED <<users, technicians, inventory_items, access_logs,
                                 fs, seq, now, issued>>

\* DELETE /api/v1/toolboxes/{toolbox_id}; Toolbox.inventory_items and
\* Toolbox.access_logs cascade "all, delete-orphan"
delete_toolbox(request, toolbox_id, unlink_fails) ==
    IF toolbox_id \notin DOMAIN toolboxes
    THEN Raise(request, "delete_toolbox", 404, "Toolbox not found")
    ELSE LET toolbox == toolboxes[toolbox_id]
         IN  /\ fs' = IF toolbox.image_url # NoneStr /\ toolbox.image_url # <<>>
                      THEN storage_delete_image(toolbox.image_url, unlink_fails).fs
                      ELSE fs
             /\ toolboxes' = Without(toolboxes, {toolbox_id})
             /\ inventory_items' = Without(inventory_items,
                                           Where(inventory_items, "toolbox_id", toolbox_id))
             /\ access_logs' = Without(access_logs,
                                       Where(access_logs, "toolbox_id", toolbox_id))
             /\ resp' = Response(request, "delete_toolbox", 200, "",
                                 [message |-> "Toolbox deleted successfully"])
             /\ UNCHANGED <<users, technicians, seq, now, issued>>

\* the id taken from the number of rows, not drawn fresh
create_access_log_ReusesId(request, log_data) ==
    IF log_data.toolbox_id \notin DOMAIN toolboxes
    THEN Raise(request, "create_access_log", 404, "Toolbox not found")
    ELSE IF log_data.technician_id \notin DOMAIN technicians
    THEN Raise(request, "create_access_log", 404, "Technician not found")
    ELSE LET id == Uuid("log-", Cardinality(DOMAIN access_logs) + 1)
             new_log == [id |-> id,
                         technician_id |-> log_data.technician_id,
                         toolbox_id |-> log_data.toolbox_id,
                         action_type |-> log_data.action_type,
                         timestamp |-> now,
                         items_missing |-> log_data.items_missing]
         IN  /\ access_logs' = (id :> new_log) @@ access_logs
             /\ seq' = [seq EXCEPT !.access_logs = @ + 1]
             /\ resp' = Response(request, "create_access_log", 200, "", new_log)
             /\ UNCHANGED <<users, technicians, toolboxes, inventory_items,
                            fs, now, issued>>

\* POST /api/v1/access-logs; timestamp is the store's now() at the insert
create_access_log_NoTechnicianCheck(request, log_data) ==
    IF log_data.toolbox_id \notin DOMAIN toolboxes
    THEN Raise(request, "create_access_log", 404, "Toolbox not found")
    ELSE LET id == Uuid("log-", seq.access_logs + 1)
             new_log == [id |-> id,
                         technician_id |-> log_data.technician_id,
                         toolbox_id |-> log_data.toolbox_id,
                         action_type |-> log_data.action_type,
                         timestamp |-> now,
                         items_missing |-> log_data.items_missing]
         IN  /\ access_logs' = (id :> new_log) @@ access_logs
             /\ seq' = [seq EXCEPT !.access_logs = @ + 1]
             /\ resp' = Response(request, "create_access_log", 200, "", new_log)
             /\ UNCHANGED <<users, technicians, toolboxes, inventory_items,
                            fs, now, issued>>

create_access_log(request, log_data) ==
    IF log_data.toolbox_id \notin DOMAIN toolboxes
    THEN Raise(request, "create_access_log", 404, "Toolbox not found")
    ELSE IF log_data.technician_id \notin DOMAIN technicians
    THEN Raise(request, "create_access_log", 404, "Technician not found")
    ELSE LET id == Uuid("log-", seq.access_logs + 1)
             new_log == [id |-> id,
                         technician_id |-> log_data.technician_id,
                         toolbox_id |-> log_data.toolbox_id,
                         action_type |-> log_data.action_type,
                         timestamp |-> now,
                         items_missing |-> log_data.items_missing]
         IN  /\ access_logs' = (id :> new_log) @@ access_logs
             /\ seq' = [seq EXCEPT !.access_logs = @ + 1]
             /\ resp' = Response(request, "create_access_log", 200, "", new_log)
             /\ UNCHANGED <<users, technicians, toolboxes, inventory_items,
                            fs, now, issued>>

\* DELETE /api/v1/access-logs/{log_id}
\* if toolbox_id: / if technician_id: -- a filter that is None or empty
\* filters nothing
Filtered(toolbox_id, technician_id) ==
    {id \in DOMAIN access_logs :
        /\ toolbox_id \in {None, ""} \/ access_logs[id].toolbox_id = toolbox_id
        /\ technician_id \in {None, ""} \/ access_logs[id].technician_id = technician_id}

\* order_by(AccessLog.timestamp.desc()): every order of the rows in which no
\* row comes before a newer one; rows of one timestamp come in any order
OrderByTimestampDesc(ids) ==
    {rows \in [1..Cardinality(ids) -> ids] :
        /\ \A i, j \in DOMAIN rows : i < j =>
              /\ rows[i] # rows[j]
              /\ access_logs[rows[i]].timestamp >= access_logs[rows[j]].timestamp}

\* .offset(skip) on SQLite (DATABASE_URL): a negative OFFSET is 0
Offset(rows, skip) ==
    SubSeq(rows, (IF skip < 0 THEN 0 ELSE skip) + 1, Len(rows))

\* .limit(limit) on SQLite: a negative LIMIT is no limit
Limit(rows, limit) ==
    IF limit < 0 \/ limit > Len(rows) THEN rows ELSE SubSeq(rows, 1, limit)

\* GET /api/v1/access-logs?skip&limit&toolbox_id&technician_id
get_access_logs(request, skip, limit, toolbox_id, technician_id) ==
    \E rows \in OrderByTimestampDesc(Filtered(toolbox_id, technician_id)) :
        Reply(request, "get_access_logs",
              [logs |-> [i \in DOMAIN Limit(Offset(rows, skip), limit) |->
                            access_logs[Limit(Offset(rows, skip), limit)[i]]]])

delete_access_log_MissingOk(request, log_id) ==
    /\ access_logs' = Without(access_logs, {log_id})
    /\ resp' = Response(request, "delete_access_log", 200, "",
                        [message |-> "Access log deleted successfully"])
    /\ UNCHANGED <<users, technicians, toolboxes, inventory_items,
                   fs, seq, now, issued>>

delete_access_log(request, log_id) ==
    IF log_id \notin DOMAIN access_logs
    THEN Raise(request, "delete_access_log", 404, "Access log not found")
    ELSE /\ access_logs' = Without(access_logs, {log_id})
         /\ resp' = Response(request, "delete_access_log", 200, "",
                             [message |-> "Access log deleted successfully"])
         /\ UNCHANGED <<users, technicians, toolboxes, inventory_items,
                        fs, seq, now, issued>>

-----------------------------------------------------------------------------
(* Dashboard *)

\* func.date(timestamp), datetime.utcnow().date(): the UTC calendar day
Date(t) == t \div MinutesPerDay

\* the rows query.order_by(timestamp.desc()).first() may return: the store
\* breaks a tie between equal timestamps as it likes
LatestOf(ids) ==
    {id \in ids : \A other \in ids :
                     access_logs[other].timestamp <= access_logs[id].timestamp}

\* GET /api/v1/dashboard/stats: the bodies the handler may return
get_dashboard_stats_SumsMissing ==
    LET today == Date(now)
        todays == {id \in DOMAIN access_logs : Date(access_logs[id].timestamp) = today}
        with_missing == {id \in DOMAIN access_logs : access_logs[id].items_missing > 0}
        RECURSIVE Sum(_)
        Sum(S) == IF S = {} THEN 0
                  ELSE LET x == CHOOSE x \in S : TRUE
                       IN  access_logs[x].items_missing + Sum(S \ {x})
    IN  { [total_checkouts_today |-> Cardinality(todays),
           missing_items |-> Sum(with_missing),
           active_technicians |->
               Cardinality({access_logs[id].technician_id : id \in todays})] }

get_dashboard_stats_CountsRowsAsTechnicians ==
    LET today == Date(now)
        todays == {id \in DOMAIN access_logs : Date(access_logs[id].timestamp) = today}
    IN  { [total_checkouts_today |-> Cardinality(todays),
           missing_items |-> 0,
           active_technicians |-> Cardinality(todays)] }

get_dashboard_stats ==
    LET today == Date(now)
        todays == {id \in DOMAIN access_logs : Date(access_logs[id].timestamp) = today}
        checkouts_today == Cardinality(todays)
        with_missing == {id \in DOMAIN access_logs : access_logs[id].items_missing > 0}
        missing_counts == IF with_missing = {} THEN {0}
                          ELSE {access_logs[id].items_missing : id \in LatestOf(with_missing)}
        active_technicians == Cardinality({access_logs[id].technician_id : id \in todays})
    IN  { [total_checkouts_today |-> checkouts_today,
           missing_items |-> missing_count,
           active_technicians |-> active_technicians] :
          missing_count \in missing_counts }

-----------------------------------------------------------------------------
(* Images *)

ALLOWED_CONTENT_TYPES == {"image/jpeg", "image/png", "image/jpg"}

\* POST /api/v1/images/upload
upload_image_SavesBeforeCheck(request, file, subfolder) ==
    LET saved == save_image(file, subfolder)
    IN  IF ~saved.ok
        THEN Raise(request, "upload_image", 500, "Failed to upload image")
        ELSE /\ fs' = saved.fs
             /\ seq' = [seq EXCEPT !.files = @ + 1]
             /\ resp' = IF file.content_type \notin ALLOWED_CONTENT_TYPES
                        THEN Response(request, "upload_image", 400,
                                      "Only JPEG and PNG images are allowed", NoneRec)
                        ELSE Response(request, "upload_image", 200, "",
                                      [filename |-> file.filename,
                                       file_path |-> saved.file_path,
                                       file_size |-> saved.file_size,
                                       content_type |-> file.content_type])
             /\ UNCHANGED <<store, now, issued>>

upload_image(request, file, subfolder) ==
    IF file.content_type \notin ALLOWED_CONTENT_TYPES
    THEN Raise(request, "upload_image", 400, "Only JPEG and PNG images are allowed")
    ELSE LET saved == save_image(file, subfolder)
         IN  IF ~saved.ok
             THEN Raise(request, "upload_image", 500, "Failed to upload image")
             ELSE /\ fs' = saved.fs
                  /\ seq' = [seq EXCEPT !.files = @ + 1]
                  /\ resp' = Response(request, "upload_image", 200, "",
                                      [filename |-> file.filename,
                                       file_path |-> saved.file_path,
                                       file_size |-> saved.file_size,
                                       content_type |-> file.content_type])
                  /\ UNCHANGED <<store, now, issued>>

\* GET /uploads/{subfolder}/{filename}: [status, detail, body]; FileResponse
\* of a directory fails
get_uploaded_file_result(subfolder, filename) ==
    LET file_path == get_file_path(subfolder \o <<"/">> \o filename)
    IN  IF file_path = NonePath \/ ~Exists(file_path)
        THEN [status |-> 404, detail |-> "Image not found", body |-> NoneRec]
        ELSE IF ~IsFile(file_path)
        THEN [status |-> 500, detail |-> "Internal Server Error", body |-> NoneRec]
        ELSE [status |-> 200, detail |-> "",
              body |-> [content |-> fs.files[Normalize(<<>>, file_path)]]]

get_uploaded_file(request, subfolder, filename) ==
    LET got == get_uploaded_file_result(subfolder, filename)
    IN  /\ resp' = Response(request, "get_uploaded_file", got.status, got.detail, got.body)
        /\ UNCHANGED <<store, fs, seq, now, issued>>

\* DELETE /api/v1/images?file_path=...
delete_image(request, file_path, unlink_fails) ==
    LET deleted == storage_delete_image(file_path, unlink_fails)
    IN  IF ~deleted.ok
        THEN Raise(request, "delete_image", 404, "Image not found")
        ELSE /\ fs' = deleted.fs
             /\ resp' = Response(request, "delete_image", 200, "",
                                 [message |-> "Image deleted successfully"])
             /\ UNCHANGED <<store, seq, now, issued>>

-----------------------------------------------------------------------------
(* One request: the gate, then the router, then the handler *)

\* a path parameter the handler compares with an id column
AsId(segment) == IF Len(segment) = 1 THEN segment[1] ELSE "?"

StaticRoutes == {"healthcheck", "health_check", "root", "openapi", "docs", "redoc"}

\* os: what the operating system does during the request ([unlink_fails])
Serve(request, os) ==
    IF dispatch(request) = "401"
    THEN /\ resp' = Response(request, "none", 401, "Invalid or missing API key", NoneRec)
         /\ UNCHANGED <<store, fs, seq, now, issued>>
    ELSE \E r \in {route(request)} :
         LET arg == request.body
         IN  CASE r.name = "register" -> register(request, arg)
               [] r.name = "login" -> login(request, arg)
               [] r.name = "create_technician" -> create_technician(request, arg)
               [] r.name = "get_technician_by_nfc" ->
                      get_technician_by_nfc(request, AsId(r.params[1]))
               [] r.name = "update_technician" ->
                      update_technician(request, AsId(r.params[1]), arg)
               [] r.name = "delete_technician" ->
                      delete_technician(request, AsId(r.params[1]))
               [] r.name = "create_toolbox" -> create_toolbox(request, arg)
               [] r.name = "get_toolbox" -> get_toolbox(request, AsId(r.params[1]))
               [] r.name = "update_toolbox" ->
                      update_toolbox(request, AsId(r.params[1]), arg)
               [] r.name = "delete_toolbox" ->
                      delete_toolbox(request, AsId(r.params[1]), os.unlink_fails)
               [] r.name = "create_access_log" -> create_access_log(request, arg)
               [] r.name = "get_access_logs" ->
                      get_access_logs(request, arg.skip, arg.limit,
                                      arg.toolbox_id, arg.technician_id)
               [] r.name = "delete_access_log" ->
                      delete_access_log(request, AsId(r.params[1]))
               [] r.name = "get_dashboard_stats" ->
                      \E body \in get_dashboard_stats :
                          Reply(request, "get_dashboard_stats", body)
               [] r.name = "upload_image" ->
                      upload_image(request, arg.file, arg.subfolder)
               [] r.name = "get_uploaded_file" ->
                      get_uploaded_file(request, r.params[1], r.params[2])
               [] r.name = "delete_image" ->
                      delete_image(request, arg.file_path, os.unlink_fails)
               [] r.name \in StaticRoutes ->
                      Reply(request, r.name, [static |-> r.name])
               [] r.name = "404" -> Raise(request, "none", 404, "Not Found")
               [] r.name = "405" -> Raise(request, "none", 405, "Method Not Allowed")
               [] OTHER -> FALSE

OsOk == [unlink_fails |-> FALSE]

\* a request served from its first statement to its answer with no other
\* request in between, sent by a client other than the Raspberry Pi
Handle(request, os) ==
    /\ Serve(request, os)
    /\ UNCHANGED <<tasks, pi>>

Request(method, path, key, body) ==
    [path |-> path, method |-> method, key |-> key, body |-> body]

V1Path(rest) == API_V1_STR \o rest

\* no request has been answered since the environment last acted
Idle == Response(Request("NONE", <<>>, None, NoneRec), "none", 0, "", NoneRec)

-----------------------------------------------------------------------------
(* Requests in flight. Every request has its own database session and the  *)
(* server may run several at once; a handler then takes one step for each  *)
(* statement that reads or writes the database or the file system, and     *)
(* other requests may act between two of its steps.                        *)

\* the handlers taken statement by statement
Stepwise == {"register", "create_technician", "update_technician",
             "create_toolbox", "update_toolbox", "create_access_log",
             "delete_toolbox", "upload_image"}

\* a request passes the gate and the router and stands before the first
\* statement of its handler, as the task with the lowest free number
Accept(t, request) ==
    /\ t \notin DOMAIN tasks
    /\ \A earlier \in 1..(t - 1) : earlier \in DOMAIN tasks
    /\ dispatch(request) = "call_next"
    /\ route(request).name \in Stepwise
    /\ tasks' = (t :> [request |-> request,
                       params |-> route(request).params,
                       handler |-> route(request).name,
                       pc |-> "start"]) @@ tasks
    /\ resp' = Idle
    /\ UNCHANGED <<store, fs, seq, now, issued, pi>>

\* the handler of task t goes on to the statement at pc, holding locals
Goto(t, pc, locals) ==
    /\ tasks' = [tasks EXCEPT ![t] = locals @@ [@ EXCEPT !.pc = pc]]
    /\ resp' = Idle

\* the handler of task t returns or raises: the request is answered
Finish(t, status, detail, body) ==
    /\ tasks' = Without(tasks, {t})
    /\ resp' = Response(tasks[t].request, tasks[t].handler, status, detail, body)

\* no local set by the statement
NoLocals == [local \in {} |-> None]

\* register in one step: the checks and the insert with nothing in between
register_step_Atomic(t) ==
    LET user_data == tasks[t].request.body
        id == Uuid("user-", seq.users + 1)
        new_user == [id |-> id,
                     username |-> user_data.username,
                     email |-> user_data.email,
                     is_active |-> TRUE,
                     last_login |-> NoTime,
                     password_hash |-> get_password_hash(user_data.password)]
    IN  IF UsersWhere("username", user_data.username) # {}
        THEN /\ Finish(t, 400, "Username already registered", NoneRec)
             /\ UNCHANGED <<store, fs, seq, now, issued, pi>>
        ELSE IF UsersWhere("email", user_data.email) # {}
        THEN /\ Finish(t, 400, "Email already registered", NoneRec)
             /\ UNCHANGED <<store, fs, seq, now, issued, pi>>
        ELSE /\ users' = (id :> new_user) @@ users
             /\ seq' = [seq EXCEPT !.users = @ + 1]
             /\ Finish(t, 200, "", UserResponse(id, new_user))
             /\ UNCHANGED <<technicians, toolboxes, inventory_items, access_logs,
                            fs, now, issued, pi>>

\* POST /api/v1/auth/register, a statement at a time: the query by username,
\* the query by email, then add and commit; username and email are unique
\* columns of users, and a commit they refuse is an IntegrityError no
\* handler catches
register_step(t) ==
    LET user_data == tasks[t].request.body
        id == Uuid("user-", seq.users + 1)
        new_user == [id |-> id,
                     username |-> user_data.username,
                     email |-> user_data.email,
                     is_active |-> TRUE,
                     last_login |-> NoTime,
                     password_hash |-> get_password_hash(user_data.password)]
    IN  CASE tasks[t].pc = "start" ->
               /\ IF UsersWhere("username", user_data.username) # {}
                  THEN Finish(t, 400, "Username already registered", NoneRec)
                  ELSE Goto(t, "email", NoLocals)
               /\ UNCHANGED <<store, fs, seq, now, issued, pi>>
          [] tasks[t].pc = "email" ->
               /\ IF UsersWhere("email", user_data.email) # {}
                  THEN Finish(t, 400, "Email already registered", NoneRec)
                  ELSE Goto(t, "commit", NoLocals)
               /\ UNCHANGED <<store, fs, seq, now, issued, pi>>
          [] tasks[t].pc = "commit" ->
               IF Refused(users, id, new_user, {}, {"username", "email"})
               THEN /\ Finish(t, 500, "Internal Server Error", NoneRec)
                    /\ UNCHANGED <<store, fs, seq, now, issued, pi>>
               ELSE /\ users' = (id :> new_user) @@ users
                    /\ seq' = [seq EXCEPT !.users = @ + 1]
                    /\ Finish(t, 200, "", UserResponse(id, new_user))
                    /\ UNCHANGED <<technicians, toolboxes, inventory_items,
                                   access_logs, fs, now, issued, pi>>

\* POST /api/v1/technicians, a statement at a time: the query by
\* nfc_card_uid, the query by employee_id, then add and commit
create_technician_step(t) ==
    LET technician_data == tasks[t].request.body
        id == Uuid("tech-", seq.technicians + 1)
        new_technician == [status |-> "active",
                           id |-> id,
                           updated_at |-> now,
                           nfc_card_uid |-> technician_data.nfc_card_uid,
                           employee_id |-> technician_data.employee_id]
    IN  CASE tasks[t].pc = "start" ->
               /\ IF Where(technicians, "nfc_card_uid", technician_data.nfc_card_uid) # {}
                  THEN Finish(t, 400, "NFC card UID already registered", NoneRec)
                  ELSE Goto(t, "employee", NoLocals)
               /\ UNCHANGED <<store, fs, seq, now, issued, pi>>
          [] tasks[t].pc = "employee" ->
               /\ IF Where(technicians, "employee_id", technician_data.employee_id) # {}
                  THEN Finish(t, 400, "Employee ID already registered", NoneRec)
                  ELSE Goto(t, "commit", NoLocals)
               /\ UNCHANGED <<store, fs, seq, now, issued, pi>>
          [] tasks[t].pc = "commit" ->
               IF Refused(technicians, id, new_technician,
                          {"nfc_card_uid", "employee_id"}, {"nfc_card_uid", "employee_id"})
               THEN /\ Finish(t, 500, "Internal Server Error", NoneRec)
                    /\ UNCHANGED <<store, fs, seq, now, issued, pi>>
               ELSE /\ technicians' = (id :> new_technician) @@ technicians
                    /\ seq' = [seq EXCEPT !.technicians = @ + 1]
                    /\ Finish(t, 200, "", new_technician)
                    /\ UNCHANGED <<users, toolboxes, inventory_items, access_logs,
                                   fs, now, issued, pi>>

\* the row the UPDATE of a commit leaves: the columns whose value the
\* handler changed on the object it loaded are written over the row as it
\* is now, and updated_at is stamped when any is
Written(current, loaded, data) ==
    LET assigned == Assign(loaded, data)
        changed == {field \in DOMAIN loaded : assigned[field] # loaded[field]}
    IN  IF changed = {} THEN current
        ELSE [field \in DOMAIN current |->
                 IF field \in changed THEN assigned[field]
                 ELSE IF field = "updated_at" THEN now
                 ELSE current[field]]

\* PUT /api/v1/technicians/{technician_id}, a statement at a time: the
\* query by id, then setattr on the loaded object, commit and refresh; a
\* row gone by the commit fails it (StaleDataError, or the refresh)
update_technician_step(t) ==
    LET technician_id == AsId(tasks[t].params[1])
    IN  CASE tasks[t].pc = "start" ->
               /\ IF technician_id \notin DOMAIN technicians
                  THEN Finish(t, 404, "Technician not found", NoneRec)
                  ELSE Goto(t, "commit", [row |-> technicians[technician_id]])
               /\ UNCHANGED <<store, fs, seq, now, issued, pi>>
          [] tasks[t].pc = "commit" ->
               IF technician_id \notin DOMAIN technicians
               THEN /\ Finish(t, 500, "Internal Server Error", NoneRec)
                    /\ UNCHANGED <<store, fs, seq, now, issued, pi>>
               ELSE LET written == Written(technicians[technician_id], tasks[t].row,
                                           tasks[t].request.body)
                    IN  IF Refused(technicians, technician_id, written,
                                   {"nfc_card_uid", "employee_id"},
                                   {"nfc_card_uid", "employee_id"})
                        THEN /\ Finish(t, 500, "Internal Server Error", NoneRec)
                             /\ UNCHANGED <<store, fs, seq, now, issued, pi>>
                        ELSE /\ technicians' = [technicians EXCEPT ![technician_id] = written]
                             /\ tasks' = Without(tasks, {t})
                             /\ resp' = Returned(tasks[t].request, "update_technician", written)
                             /\ UNCHANGED <<users, toolboxes, inventory_items, access_logs,
                                            fs, seq, now, issued, pi>>

\* POST /api/v1/toolboxes, a statement at a time: the query by name, then
\* add and commit
create_toolbox_step(t) ==
    LET toolbox_data == tasks[t].request.body
        id == Uuid("tbx-", seq.toolboxes + 1)
        new_toolbox == [name |-> toolbox_data.name,
                        status |-> "operational",
                        id |-> id,
                        updated_at |-> now,
                        raspberry_pi_serial |-> toolbox_data.raspberry_pi_serial,
                        image_url |-> toolbox_data.image_url]
    IN  CASE tasks[t].pc = "start" ->
               /\ IF Where(toolboxes, "name", toolbox_data.name) # {}
                  THEN Finish(t, 400, "Toolbox name already exists", NoneRec)
                  ELSE Goto(t, "commit", NoLocals)
               /\ UNCHANGED <<store, fs, seq, now, issued, pi>>
          [] tasks[t].pc = "commit" ->
               IF Refused(toolboxes, id, new_toolbox, {"name"},
                          {"name", "raspberry_pi_serial"})
               THEN /\ Finish(t, 500, "Internal Server Error", NoneRec)
                    /\ UNCHANGED <<store, fs, seq, now, issued, pi>>
               ELSE /\ toolboxes' = (id :> new_toolbox) @@ toolboxes
                    /\ seq' = [seq EXCEPT !.toolboxes = @ + 1]
                    /\ Finish(t, 200, "", new_toolbox)
                    /\ UNCHANGED <<users, technicians, inventory_items, access_logs,
                                   fs, now, issued, pi>>

\* PUT /api/v1/toolboxes/{toolbox_id}, a statement at a time
update_toolbox_step(t) ==
    LET toolbox_id == AsId(tasks[t].params[1])
    IN  CASE tasks[t].pc = "start" ->
               /\ IF toolbox_id \notin DOMAIN toolboxes
                  THEN Finish(t, 404, "Toolbox not found", NoneRec)
                  ELSE Goto(t, "commit", [row |-> toolboxes[toolbox_id]])
               /\ UNCHANGED <<store, fs, seq, now, issued, pi>>
          [] tasks[t].pc = "commit" ->
               IF toolbox_id \notin DOMAIN toolboxes
               THEN /\ Finish(t, 500, "Internal Server Error", NoneRec)
                    /\ UNCHANGED <<store, fs, seq, now, issued, pi>>
               ELSE LET written == Written(toolboxes[toolbox_id], tasks[t].row,
                                           tasks[t].request.body)
                    IN  IF Refused(toolboxes, toolbox_id, written, {"name"}, {"name"})
                        THEN /\ Finish(t, 500, "Internal Server Error", NoneRec)
                             /\ UNCHANGED <<store, fs, seq, now, issued, pi>>
                        ELSE /\ toolboxes' = [toolboxes EXCEPT ![toolbox_id] = written]
                             /\ tasks' = Without(tasks, {t})
                             /\ resp' = Returned(tasks[t].request, "update_toolbox", written)
                             /\ UNCHANGED <<users, technicians, inventory_items, access_logs,
                                            fs, seq, now, issued, pi>>

\* PRAGMA foreign_keys of the SQLite database: off unless a connection
\* turns it on, and nothing under the backend does
foreign_keys == FALSE

\* POST /api/v1/access-logs, a statement at a time: the query of the
\* toolbox, the query of the technician, then add and commit
create_access_log_step(t) ==
    LET log_data == tasks[t].request.body
        id == Uuid("log-", seq.access_logs + 1)
        new_log == [id |-> id,
                    technician_id |-> log_data.technician_id,
                    toolbox_id |-> log_data.toolbox_id,
                    action_type |-> log_data.action_type,
                    timestamp |-> now,
                    items_missing |-> log_data.items_missing]
    IN  CASE tasks[t].pc = "start" ->
               /\ IF log_data.toolbox_id \notin DOMAIN toolboxes
                  THEN Finish(t, 404, "Toolbox not found", NoneRec)
                  ELSE Goto(t, "technician", NoLocals)
               /\ UNCHANGED <<store, fs, seq, now, issued, pi>>
          [] tasks[t].pc = "technician" ->
               /\ IF log_data.technician_id \notin DOMAIN technicians
                  THEN Finish(t, 404, "Technician not found", NoneRec)
                  ELSE Goto(t, "commit", NoLocals)
               /\ UNCHANGED <<store, fs, seq, now, issued, pi>>
          [] tasks[t].pc = "commit" ->
               IF /\ foreign_keys
                  /\ \/ log_data.toolbox_id \notin DOMAIN toolboxes
                     \/ log_data.technician_id \notin DOMAIN technicians
               THEN /\ Finish(t, 500, "Internal Server Error", NoneRec)
                    /\ UNCHANGED <<store, fs, seq, now, issued, pi>>
               ELSE /\ access_logs' = (id :> new_log) @@ access_logs
                    /\ seq' = [seq EXCEPT !.access_logs = @ + 1]
                    /\ Finish(t, 200, "", new_log)
                    /\ UNCHANGED <<users, technicians, toolboxes, inventory_items,
                                   fs, now, issued, pi>>

\* the rows of a toolbox deleted first, its image file after
delete_toolbox_step_RowFirst(t) ==
    LET toolbox_id == AsId(tasks[t].params[1])
    IN  CASE tasks[t].pc = "start" ->
               /\ IF toolbox_id \notin DOMAIN toolboxes
                  THEN Finish(t, 404, "Toolbox not found", NoneRec)
                  ELSE Goto(t, "delete", [toolbox |-> toolboxes[toolbox_id],
                                          deleted |-> FALSE,
                                          image_attempted |-> FALSE])
               /\ UNCHANGED <<store, fs, seq, now, issued, pi>>
          [] tasks[t].pc = "delete" ->
               /\ toolboxes' = Without(toolboxes, {toolbox_id})
               /\ inventory_items' = Without(inventory_items,
                                             Where(inventory_items, "toolbox_id", toolbox_id))
               /\ access_logs' = Without(access_logs,
                                         Where(access_logs, "toolbox_id", toolbox_id))
               /\ Goto(t, IF tasks[t].toolbox.image_url \in {NoneStr, <<>>}
                          THEN "return" ELSE "image", [deleted |-> TRUE])
               /\ UNCHANGED <<users, technicians, fs, seq, now, issued, pi>>
          [] tasks[t].pc = "image" ->
               /\ \E unlink_fails \in BOOLEAN :
                     fs' = storage_delete_image(tasks[t].toolbox.image_url, unlink_fails).fs
               /\ Goto(t, "return", [image_attempted |-> TRUE])
               /\ UNCHANGED <<store, seq, now, issued, pi>>
          [] tasks[t].pc = "return" ->
               /\ Finish(t, 200, "", [message |-> "Toolbox deleted successfully"])
               /\ UNCHANGED <<store, fs, seq, now, issued, pi>>

\* DELETE /api/v1/toolboxes/{toolbox_id}, a statement at a time: the query
\* by id, storage_service.delete_image when image_url is truthy, db.delete
\* with commit (the cascade to inventory items and access logs is part of
\* the commit; a row another request deleted meanwhile is a warning, not an
\* error), then the return
delete_toolbox_step(t) ==
    LET toolbox_id == AsId(tasks[t].params[1])
    IN  CASE tasks[t].pc = "start" ->
               /\ IF toolbox_id \notin DOMAIN toolboxes
                  THEN Finish(t, 404, "Toolbox not found", NoneRec)
                  ELSE Goto(t, IF toolboxes[toolbox_id].image_url \in {NoneStr, <<>>}
                               THEN "delete" ELSE "image",
                            [toolbox |-> toolboxes[toolbox_id],
                             deleted |-> FALSE,
                             image_attempted |-> FALSE])
               /\ UNCHANGED <<store, fs, seq, now, issued, pi>>
          [] tasks[t].pc = "image" ->
               /\ \E unlink_fails \in BOOLEAN :
                     fs' = storage_delete_image(tasks[t].toolbox.image_url, unlink_fails).fs
               /\ Goto(t, "delete", [image_attempted |-> TRUE])
               /\ UNCHANGED <<store, seq, now, issued, pi>>
          [] tasks[t].pc = "delete" ->
               /\ toolboxes' = Without(toolboxes, {toolbox_id})
               /\ inventory_items' = Without(inventory_items,
                                             Where(inventory_items, "toolbox_id", toolbox_id))
               /\ access_logs' = Without(access_logs,
                                         Where(access_logs, "toolbox_id", toolbox_id))
               /\ Goto(t, "return", [deleted |-> TRUE])
               /\ UNCHANGED <<users, technicians, fs, seq, now, issued, pi>>
          [] tasks[t].pc = "return" ->
               /\ Finish(t, 200, "", [message |-> "Toolbox deleted successfully"])
               /\ UNCHANGED <<store, fs, seq, now, issued, pi>>

\* POST /api/v1/images/upload, up to and after the await of save_image:
\* the content type is checked, the name drawn and the subfolder made; then
\* file.read() is awaited, and the bytes are written and the answer built
upload_image_step(t) ==
    LET file == tasks[t].request.body.file
        subfolder == tasks[t].request.body.subfolder
        file_extension == IF file.filename # NoneStr /\ file.filename # <<>>
                          THEN Suffix(file.filename) ELSE <<".jpg">>
        subfolder_path == PathJoin(UPLOAD_DIR, subfolder)
    IN  CASE tasks[t].pc = "start" ->
               IF file.content_type \notin ALLOWED_CONTENT_TYPES
               THEN /\ Finish(t, 400, "Only JPEG and PNG images are allowed", NoneRec)
                    /\ UNCHANGED <<store, fs, seq, now, issued, pi>>
               ELSE /\ seq' = [seq EXCEPT !.files = @ + 1]
                    /\ IF \E d \in Prefixes(Normalize(<<>>, subfolder_path)) :
                             d \in DOMAIN fs.files
                       THEN /\ Finish(t, 500, "Failed to upload image", NoneRec)
                            /\ fs' = fs
                       ELSE /\ Goto(t, "write",
                                    [unique_filename |->
                                        <<Uuid("file-", seq.files + 1)>> \o file_extension])
                            /\ fs' = Mkdir(subfolder_path)
                    /\ UNCHANGED <<store, now, issued, pi>>
          [] tasks[t].pc = "write" ->
               LET file_path == Normalize(<<>>, subfolder_path \o <<tasks[t].unique_filename>>)
                   relative_path == UPLOADS_PREFIX \o subfolder \o <<"/">>
                                        \o tasks[t].unique_filename
               IN  /\ fs' = [fs EXCEPT !.files = (file_path :> file.contents) @@ @]
                   /\ Finish(t, 200, "", [filename |-> file.filename,
                                          file_path |-> relative_path,
                                          file_size |-> Len(file.contents),
                                          content_type |-> file.content_type])
                   /\ UNCHANGED <<store, seq, now, issued, pi>>

\* the next statement of the handler of task t
Step(t) ==
    CASE tasks[t].handler = "register" -> register_step(t)
      [] tasks[t].handler = "create_technician" -> create_technician_step(t)
      [] tasks[t].handler = "update_technician" -> update_technician_step(t)
      [] tasks[t].handler = "create_toolbox" -> create_toolbox_step(t)
      [] tasks[t].handler = "update_toolbox" -> update_toolbox_step(t)
      [] tasks[t].handler = "create_access_log" -> create_access_log_step(t)
      [] tasks[t].handler = "delete_toolbox" -> delete_toolbox_step(t)
      [] tasks[t].handler = "upload_image" -> upload_image_step(t)
      [] OTHER -> FALSE

-----------------------------------------------------------------------------
(* The Raspberry Pi client: MonitoolsClient and the flows of the example   *)
(* script. The client holds the server's API key; each of its requests is  *)
(* served before it goes on, and other clients act between its requests.   *)

\* response.raise_for_status(): an answer of 400 or more is raised
Raised(answer) == answer.status >= 400

\* MonitoolsClient._make_request: the request, sent with the client's key
make_request(method, endpoint, data) ==
    /\ Serve(Request(method, endpoint, API_KEY, data), OsOk)
    /\ UNCHANGED tasks

\* the client goes on at pc, holding locals
PiGoto(pc, locals) == pi' = locals @@ [pi EXCEPT !.pc = pc]

\* the flow ends and returns result ("True" and "False" for the booleans)
PiReturn(result) == PiGoto("done", [result |-> result])

\* log_access without its try: a failed upload ends the call
log_access_except_Propagates(failed) == IF failed THEN "raised" ELSE "post"

\* where log_access goes on after upload_image: its except prints a warning
\* and the log is posted whether or not the upload failed
log_access_except(failed) == "post"

\* the body log_access posts: items_missing always, a condition_image_url
\* when the upload gave one
LogData(call, condition_image_url) ==
    IF condition_image_url = NoneStr
    THEN [technician_id |-> call.technician_id, toolbox_id |-> call.toolbox_id,
          action_type |-> call.action_type, items_missing |-> 0]
    ELSE [technician_id |-> call.technician_id, toolbox_id |-> call.toolbox_id,
          action_type |-> call.action_type, items_missing |-> 0,
          condition_image_url |-> condition_image_url]

\* the denied attempt propagated: the flow ends with the exception
DeniedOutcome_Propagates(answer) == IF Raised(answer) THEN "exception" ELSE "False"

\* handle_toolbox_open after the access_denied log: try ... except: pass,
\* then return False
DeniedOutcome(answer) == "False"

\* MonitoolsClient.log_access, a request at a time: upload_image when a
\* condition_image_path is given (the file may be missing and the request
\* may fail before an answer; the subfolder is left out of the multipart
\* request, so the server takes its default), then the POST of the log; the
\* caller goes on with what the POST gave
log_access_step ==
    CASE pi.pc = "upload" ->
            \/ /\ PiGoto(log_access_except(TRUE),
                         [condition_image_url |-> NoneStr, uploads |-> pi.uploads + 1])
               /\ resp' = Idle
               /\ UNCHANGED <<store, fs, seq, now, issued, tasks>>
            \/ /\ make_request("POST", V1Path(<<"/", "images", "/", "upload">>),
                               [file |-> [filename |-> pi.call.condition_image_path,
                                          contents |-> <<"b5">>,
                                          content_type |-> "image/jpeg"],
                                subfolder |-> <<"toolboxes">>])
               /\ PiGoto(log_access_except(Raised(resp')),
                         [condition_image_url |-> IF Raised(resp') THEN NoneStr
                                                  ELSE resp'.body.file_path,
                          uploads |-> pi.uploads + 1])
      [] pi.pc = "post" ->
            /\ make_request("POST", V1Path(<<"/", "access-logs">>),
                            LogData(pi.call, pi.condition_image_url))
            /\ PiGoto("done",
                      [result |-> CASE pi.after = "denied" -> DeniedOutcome(resp')
                                    [] pi.after = "open" ->
                                          IF Raised(resp') THEN "False" ELSE "True"
                                    [] OTHER -> IF Raised(resp') THEN "exception"
                                                ELSE resp'.body.id,
                       posts |-> pi.posts + 1])
      [] OTHER -> FALSE

\* handle_toolbox_open of the example, a request at a time: the health
\* check, the lookup of the card's technician, and then either the
\* access_denied log for technician "unknown" or the toolbox and the log of
\* the opening (capture_image gives no image)
handle_toolbox_open_step ==
    CASE pi.pc = "health" ->
            /\ Serve(Request("GET", <<"/", "up">>, None, NoneRec), OsOk)
            /\ UNCHANGED tasks
            /\ IF resp'.status = 200 THEN PiGoto("identify", NoLocals)
               ELSE PiReturn("False")
      [] pi.pc = "identify" ->
            /\ make_request("GET", V1Path(<<"/", "technicians", "/", "by-nfc", "/",
                                            pi.nfc_uid>>), NoneRec)
            /\ IF Raised(resp')
               THEN PiGoto("post", [call |-> [technician_id |-> "unknown",
                                              toolbox_id |-> pi.toolbox_id,
                                              action_type |-> "access_denied",
                                              condition_image_path |-> NoneStr],
                                    after |-> "denied"])
               ELSE PiGoto("get_toolbox", [technician |-> resp'.body.id])
      [] pi.pc = "get_toolbox" ->
            /\ make_request("GET", V1Path(<<"/", "toolboxes", "/", pi.toolbox_id>>), NoneRec)
            /\ IF Raised(resp')
               THEN PiReturn("False")
               ELSE PiGoto("post", [call |-> [technician_id |-> pi.technician,
                                              toolbox_id |-> pi.toolbox_id,
                                              action_type |-> "open",
                                              condition_image_path |-> NoneStr],
                                    after |-> "open"])
      [] OTHER -> FALSE

\* the client as a flow begins
PiBegin(pc, nfc_uid, toolbox_id, call, after) ==
    /\ pi.pc \in {"idle", "done", "raised"}
    /\ pi' = [nfc_uid |-> nfc_uid, toolbox_id |-> toolbox_id, pc |-> pc,
              result |-> None, call |-> call, condition_image_url |-> NoneStr,
              uploads |-> 0, after |-> after, posts |-> 0,
              technician |-> None]
    /\ resp' = Idle
    /\ UNCHANGED <<store, fs, seq, now, issued, tasks>>

-----------------------------------------------------------------------------
(* Inputs *)

Keys == {API_KEY, "wrong-key", None}     \* None: no X-API-Key header

RegisterInputs ==
    { [username |-> "alice", email |-> "alice@x.com", password |-> "pw-a"],
      [username |-> "bob",   email |-> "bob@x.com",   password |-> "pw-b"],
      [username |-> "alice", email |-> "other@x.com", password |-> "pw-b"],
      [username |-> "carol", email |-> "alice@x.com", password |-> "pw-a"] }

LoginInputs ==
    { [username |-> "alice", password |-> "pw-a"],
      [username |-> "alice", password |-> "pw-b"],
      [username |-> "bob",   password |-> "pw-b"],
      [username |-> "carol", password |-> "pw-a"] }

\* tokens somebody may present: the one the client holds, and forgeries
ForgedTokens ==
    { [sub |-> "user-1", exp |-> now + ACCESS_TOKEN_EXPIRE_MINUTES,
       type |-> "access", sig |-> "another-secret"],
      [sub |-> None, exp |-> now + ACCESS_TOKEN_EXPIRE_MINUTES,
       type |-> "access", sig |-> SECRET_KEY],
      [sub |-> "user-9", exp |-> now + ACCESS_TOKEN_EXPIRE_MINUTES,
       type |-> "access", sig |-> SECRET_KEY] }

TokenInputs ==
    ForgedTokens \union (IF issued = NoneRec THEN {} ELSE {issued.access_token})

SomeTechnicians ==
    { [nfc_card_uid |-> "04:AA", employee_id |-> "8821"],
      [nfc_card_uid |-> "04:BB", employee_id |-> "9942"] }

TechnicianInputs ==
    SomeTechnicians \union
    { [nfc_card_uid |-> "04:AA", employee_id |-> "1024"],
      [nfc_card_uid |-> "04:CC", employee_id |-> "8821"] }

\* every id the table has handed out, and one it never did
TechnicianIds == {Uuid("tech-", n) : n \in 1..seq.technicians} \union {"unknown"}
ToolboxIds == {Uuid("tbx-", n) : n \in 1..seq.toolboxes} \union {"your-toolbox-id"}
LogIds == {Uuid("log-", n) : n \in 1..seq.access_logs} \union {"no-such-log"}

\* the URLs the uploads returned, by the files now stored or not
UploadedUrls ==
    {UPLOADS_PREFIX \o <<"toolboxes", "/", Uuid("file-", n), ".png">> : n \in 1..seq.files}

\* query strings of GET /access-logs, the defaults of the signature filled in
LogQueries ==
    { [technician_id |-> by[2], toolbox_id |-> by[1], skip |-> skip, limit |-> limit] :
        skip \in {0 - 1, 0, 1}, limit \in {0 - 1, 1, 100},
        by \in {<<None, None>>, <<"", None>>, <<"tbx-1", "tech-2">>} }

\* the UIDs a reader sends: two that cards carry, one no card does
NfcUids == {"04:AA", "04:BB", "04:EE"}

\* TechnicianUpdate bodies: the fields set in the body, a null among them
TechnicianUpdates ==
    { [status |-> "inactive"],
      [status |-> None],
      [nfc_card_uid |-> "04:BB"],
      [nfc_card_uid |-> None],
      [status |-> "inactive", employee_id |-> "8821"] }

\* ToolboxUpdate bodies
ToolboxUpdates ==
    { [status |-> "maintenance"],
      [name |-> "TBX-2"],
      [name |-> None],
      [status |-> None, image_url |-> NoneStr] }

ToolboxInputs(urls) ==
    { [name |-> name, raspberry_pi_serial |-> None, image_url |-> url] :
        name \in {"TBX-1", "TBX-2"}, url \in urls }

LogInputs(toolbox_ids, technician_ids, missing) ==
    { [technician_id |-> tech, toolbox_id |-> tb, action_type |-> "open",
       items_missing |-> m] :
        tb \in toolbox_ids, tech \in technician_ids, m \in missing }

PngFile ==
    [filename |-> <<"photo", ".png">>, contents |-> <<"b1">>,
     content_type |-> "image/png"]

Files ==
    { PngFile,
      [filename |-> NoneStr, contents |-> <<"b2", "b3">>,
       content_type |-> "image/jpeg"],
      [filename |-> <<"notes", ".txt">>, contents |-> <<"b4">>,
       content_type |-> "text/plain"],
      [filename |-> <<"scan", ".jpg">>, contents |-> <<"b5">>,
       content_type |-> "image/jpg"] }

\* images by their declared filename: with an extension, with two, with
\* none, empty, and no filename at all
DeclaredFiles ==
    { [filename |-> filename, contents |-> <<"b6", "b7">>, content_type |-> "image/png"] :
        filename \in { <<"photo", ".png">>, <<"photo", ".tar", ".jpeg">>,
                       <<"snapshot">>, <<>>, NoneStr } }

Subfolders == { <<"toolboxes">>, <<"a", "/", "b">>, <<>> }

-----------------------------------------------------------------------------
(* Actions: one per operation *)

Register(key, user_data) ==
    Handle(Request("POST", V1Path(<<"/", "auth", "/", "register">>), key, user_data), OsOk)

Login(key, credentials) ==
    Handle(Request("POST", V1Path(<<"/", "auth", "/", "login">>), key, credentials), OsOk)

\* get_current_user is a dependency no route declares: called directly
GetCurrentUser(token) ==
    LET got == get_current_user(token)
    IN  /\ resp' = Response(Request("CALL", <<>>, None, [token |-> token]),
                            "get_current_user", got.status, got.detail,
                            [user |-> got.user])
        /\ UNCHANGED <<store, fs, seq, now, issued, tasks, pi>>

\* an administrator's update of users.is_active (UserUpdate); no route of
\* main.py performs it
SetUserActive(id, active) ==
    /\ id \in DOMAIN users
    /\ users[id].is_active # active
    /\ users' = [users EXCEPT ![id].is_active = active]
    /\ resp' = Idle
    /\ UNCHANGED <<technicians, toolboxes, inventory_items, access_logs,
                   fs, seq, now, issued, tasks, pi>>

CreateTechnician(key, technician_data) ==
    Handle(Request("POST", V1Path(<<"/", "technicians">>), key, technician_data), OsOk)

GetTechnicianByNfc(key, nfc_uid) ==
    Handle(Request("GET", V1Path(<<"/", "technicians", "/", "by-nfc", "/", nfc_uid>>),
                  key, NoneRec), OsOk)

UpdateTechnician(key, id, technician_data) ==
    Handle(Request("PUT", V1Path(<<"/", "technicians", "/", id>>), key, technician_data),
          OsOk)

DeleteTechnician(key, id) ==
    Handle(Request("DELETE", V1Path(<<"/", "technicians", "/", id>>), key, NoneRec), OsOk)

CreateToolbox(key, toolbox_data) ==
    Handle(Request("POST", V1Path(<<"/", "toolboxes">>), key, toolbox_data), OsOk)

GetToolbox(key, id) ==
    Handle(Request("GET", V1Path(<<"/", "toolboxes", "/", id>>), key, NoneRec), OsOk)

UpdateToolbox(key, id, toolbox_data) ==
    Handle(Request("PUT", V1Path(<<"/", "toolboxes", "/", id>>), key, toolbox_data), OsOk)

DeleteToolbox(key, id, unlink_fails) ==
    Handle(Request("DELETE", V1Path(<<"/", "toolboxes", "/", id>>), key, NoneRec),
          [unlink_fails |-> unlink_fails])

\* seed_data.py inserts inventory items; no route of main.py does
SeedInventoryItem(toolbox_id) ==
    /\ toolbox_id \in DOMAIN toolboxes
    /\ LET id == Uuid("item-", seq.inventory_items + 1)
       IN  inventory_items' =
               (id :> [status |-> "present", id |-> id, toolbox_id |-> toolbox_id])
               @@ inventory_items
    /\ seq' = [seq EXCEPT !.inventory_items = @ + 1]
    /\ resp' = Idle
    /\ UNCHANGED <<users, technicians, toolboxes, access_logs, fs, now, issued,
                   tasks, pi>>

CreateAccessLog(key, log_data) ==
    Handle(Request("POST", V1Path(<<"/", "access-logs">>), key, log_data), OsOk)

GetAccessLogs(key, query) ==
    Handle(Request("GET", V1Path(<<"/", "access-logs">>), key, query), OsOk)

DeleteAccessLog(key, id) ==
    Handle(Request("DELETE", V1Path(<<"/", "access-logs", "/", id>>), key, NoneRec), OsOk)

GetDashboardStats(key) ==
    Handle(Request("GET", V1Path(<<"/", "dashboard", "/", "stats">>), key, NoneRec), OsOk)

UploadImage(key, file, subfolder) ==
    Handle(Request("POST", V1Path(<<"/", "images", "/", "upload">>), key,
                  [file |-> file, subfolder |-> subfolder]), OsOk)

\* a GET of any path: the static routes, the uploads, paths no route serves
Get(key, path) == Handle(Request("GET", path, key, NoneRec), OsOk)

Options(key, path) == Handle(Request("OPTIONS", path, key, NoneRec), OsOk)

DeleteImage(key, file_path, unlink_fails) ==
    Handle(Request("DELETE", V1Path(<<"/", "images">>), key, [file_path |-> file_path]),
          [unlink_fails |-> unlink_fails])

\* a PUT of any path
Put(key, path, body) == Handle(Request("PUT", path, key, body), OsOk)

\* the clock moves on by d minutes
Advance(d) ==
    /\ now' = now + d
    /\ resp' = Idle
    /\ UNCHANGED <<store, fs, seq, issued, tasks, pi>>

-----------------------------------------------------------------------------
(* The state after start-up: empty tables (Base.metadata.create_all), the  *)
(* upload directory made (StorageService.__init__)                         *)

EmptyTable == [id \in {} |-> NoneRec]

\* no request in flight
NoTasks == [task \in {} |-> NoneRec]

\* the client before it runs a flow
PiIdle == [pc |-> "idle"]

Init ==
    /\ users = EmptyTable
    /\ technicians = EmptyTable
    /\ toolboxes = EmptyTable
    /\ inventory_items = EmptyTable
    /\ access_logs = EmptyTable
    /\ fs = [files |-> [q \in {} |-> <<>>], dirs |-> Prefixes(UPLOAD_DIR)]
    /\ seq = [users |-> 0, technicians |-> 0, toolboxes |-> 0,
              inventory_items |-> 0, access_logs |-> 0, files |-> 0]
    /\ now = 0
    /\ issued = NoneRec
    /\ resp = Idle
    /\ tasks = NoTasks
    /\ pi = PiIdle

-----------------------------------------------------------------------------
(* Authentication: register, login, get_current_user, over a running clock *)

NextAuth ==
    \/ /\ \E user_data \in RegisterInputs : Register(API_KEY, user_data)
       /\ seq'.users <= MaxUsers
    \/ \E credentials \in LoginInputs : Login(API_KEY, credentials)
    \/ \E token \in TokenInputs : GetCurrentUser(token)
    \/ \E id \in DOMAIN users, active \in BOOLEAN : SetUserActive(id, active)
    \/ /\ now < MaxTokenLifetimes * ACCESS_TOKEN_EXPIRE_MINUTES
       /\ Advance(ACCESS_TOKEN_EXPIRE_MINUTES)

SpecAuth == Init /\ [][NextAuth]_vars

-----------------------------------------------------------------------------
(* The store: technicians, toolboxes with their images and inventory,      *)
(* access logs, and the deletes that cascade                               *)

\* rows and files made so far
Draws == seq.users + seq.technicians + seq.toolboxes + seq.inventory_items
         + seq.access_logs + seq.files

NextStore ==
    \/ /\ Draws < MaxStoreRows
       /\ \/ \E technician_data \in SomeTechnicians :
                CreateTechnician(API_KEY, technician_data)
          \/ \E toolbox_data \in ToolboxInputs(UploadedUrls \union {NoneStr}) :
                CreateToolbox(API_KEY, toolbox_data)
          \/ \E id \in DOMAIN toolboxes : SeedInventoryItem(id)
          \/ \E log_data \in LogInputs(ToolboxIds, TechnicianIds, {0}) :
                CreateAccessLog(API_KEY, log_data)
          \/ UploadImage(API_KEY, PngFile, <<"toolboxes">>)
    \/ \E id \in ToolboxIds, unlink_fails \in BOOLEAN :
          DeleteToolbox(API_KEY, id, unlink_fails)

SpecStore == Init /\ [][NextStore]_vars

-----------------------------------------------------------------------------
(* The dashboard: access logs made over several days, and the statistics   *)

\* technicians and the toolbox are registered on the first day; the days
\* after it bring access logs
NextDash ==
    \/ /\ seq.technicians + seq.toolboxes + seq.access_logs < MaxDashRows
       /\ \/ /\ now = 0
             /\ \E technician_data \in SomeTechnicians :
                   CreateTechnician(API_KEY, technician_data)
          \/ /\ now = 0
             /\ CreateToolbox(API_KEY, [name |-> "TBX-1", raspberry_pi_serial |-> None,
                                        image_url |-> NoneStr])
          \/ \E log_data \in LogInputs(DOMAIN toolboxes, DOMAIN technicians, 0..2) :
                CreateAccessLog(API_KEY, log_data)
    \/ GetDashboardStats(API_KEY)
    \/ /\ Date(now) < MaxDays
       /\ Advance(MinutesPerDay)

SpecDash == Init /\ [][NextDash]_vars

-----------------------------------------------------------------------------
(* The gate: requests with the key, a wrong key and no key, on paths the   *)
(* middleware lets through and on paths it guards                          *)

OpenapiPath == V1Path(<<"/", "openapi.json">>)

GatePaths ==
    public_paths \union
    { OpenapiPath,
      OpenapiPath \o <<"x">>,                       \* /api/v1/openapi.jsonx
      UPLOADS_PREFIX \o <<"toolboxes", "/", "file-1", ".png">>,
      <<"/", "uploads">>,
      <<"/", "nowhere">>,
      V1Path(<<"/", "dashboard", "/", "stats">>),
      V1Path(<<"/", "toolboxes", "/", "tbx-1">>) }

NextGate ==
    \/ \E key \in Keys, path \in GatePaths : Get(key, path)
    \/ \E key \in Keys, path \in GatePaths : Options(key, path)
    \/ /\ Draws < MaxGateRows
       /\ \E key \in Keys :
             \/ Register(key, [username |-> "alice", email |-> "alice@x.com",
                               password |-> "pw-a"])
             \/ \E toolbox_data \in ToolboxInputs(UploadedUrls \union {NoneStr}) :
                   CreateToolbox(key, toolbox_data)
             \/ UploadImage(key, PngFile, <<"toolboxes">>)
    \/ \E key \in Keys, id \in ToolboxIds : DeleteToolbox(key, id, FALSE)
    \/ \E key \in Keys, file_path \in UploadedUrls : DeleteImage(key, file_path, FALSE)

SpecGate == Init /\ [][NextGate]_vars

-----------------------------------------------------------------------------
(* Images: uploads into several subfolders, fetched and deleted by the     *)
(* URLs the uploads returned                                               *)

\* the URLs an upload may have returned
ReturnedUrls ==
    { UPLOADS_PREFIX \o subfolder \o <<"/", Uuid("file-", n)>> \o ext :
        subfolder \in Subfolders, n \in 1..seq.files, ext \in {<<".png">>, <<".jpg">>} }

\* the paths a client asks to delete: those URLs, and a directory
DeletedUrls == ReturnedUrls \union {UPLOADS_PREFIX \o <<"toolboxes">>}

NextImages ==
    \/ /\ seq.files < MaxUploads
       /\ \E file \in Files, subfolder \in Subfolders :
             UploadImage(API_KEY, file, subfolder)
    \/ \E path \in ReturnedUrls : Get(None, path)
    \/ \E file_path \in DeletedUrls, unlink_fails \in BOOLEAN :
          DeleteImage(API_KEY, file_path, unlink_fails)

SpecImages == Init /\ [][NextImages]_vars

-----------------------------------------------------------------------------
(* The image store on a disk that holds other files: the database beside   *)
(* the upload directory (DATABASE_URL), a file of the host                 *)

DatabaseFile == << <<"data">>, <<"toolbox", ".db">> >>      \* ./data/toolbox.db
HostFile == <<ROOT, <<"etc">>, <<"hosts">>>>                \* /etc/hosts

InitDisk ==
    /\ users = EmptyTable
    /\ technicians = EmptyTable
    /\ toolboxes = EmptyTable
    /\ inventory_items = EmptyTable
    /\ access_logs = EmptyTable
    /\ fs = [files |-> (DatabaseFile :> <<"sqlite">>) @@ (HostFile :> <<"hosts">>),
             dirs |-> Prefixes(UPLOAD_DIR) \union Prefixes(HostFile)]
    /\ seq = [users |-> 0, technicians |-> 0, toolboxes |-> 0,
              inventory_items |-> 0, access_logs |-> 0, files |-> 0]
    /\ now = 0
    /\ issued = NoneRec
    /\ resp = Idle
    /\ tasks = NoTasks
    /\ pi = PiIdle

\* relative URLs a client sends: with ".." segments, absolute, with and
\* without the /uploads/ prefix
OutsideUrls ==
    { UPLOADS_PREFIX \o <<"..", "/", "toolbox", ".db">>,
      <<"..", "/", "toolbox", ".db">>,
      UPLOADS_PREFIX \o <<"/", "etc", "/", "hosts">>,
      <<"/", "etc", "/", "hosts">>,
      UPLOADS_PREFIX \o <<"toolboxes", "/", "..", "/", "toolboxes", "/", "file-1", ".png">> }

NextDisk ==
    \/ /\ seq.files < MaxDiskUploads
       /\ UploadImage(API_KEY, PngFile, <<"toolboxes">>)
    \/ \E file_path \in OutsideUrls \union UploadedUrls :
          DeleteImage(API_KEY, file_path, FALSE)
    \/ \E path \in UploadedUrls
                    \union {UPLOADS_PREFIX \o <<"..", "/", "toolbox", ".db">>} :
          Get(None, path)

SpecDisk == InitDisk /\ [][NextDisk]_vars

-----------------------------------------------------------------------------
(* Access logs among the requests that could touch them                    *)

\* rows made and minutes gone by
ImmutableSteps == seq.technicians + seq.toolboxes + seq.access_logs + now

NextImmutable ==
    \/ /\ ImmutableSteps < MaxImmutableSteps
       /\ \/ /\ now = 0
             /\ CreateTechnician(API_KEY, [nfc_card_uid |-> "04:AA", employee_id |-> "8821"])
          \/ /\ now = 0
             /\ CreateToolbox(API_KEY, [name |-> "TBX-1", raspberry_pi_serial |-> None,
                                        image_url |-> NoneStr])
          \/ \E log_data \in LogInputs(DOMAIN toolboxes, DOMAIN technicians, {0}) :
                CreateAccessLog(API_KEY, log_data)
          \/ Advance(1)
    \/ \E id \in DOMAIN technicians : UpdateTechnician(API_KEY, id, [status |-> "inactive"])
    \/ \E id \in DOMAIN toolboxes : UpdateToolbox(API_KEY, id, [status |-> "maintenance"])
    \/ \E id \in DOMAIN access_logs :
          Put(API_KEY, V1Path(<<"/", "access-logs", "/", id>>), [items_missing |-> 3])
    \/ GetAccessLogs(API_KEY, [technician_id |-> None, toolbox_id |-> None,
                               skip |-> 0, limit |-> 100])
    \/ \E id \in DOMAIN access_logs : DeleteAccessLog(API_KEY, id)
    \/ \E id \in DOMAIN technicians : DeleteTechnician(API_KEY, id)

SpecImmutable == Init /\ [][NextImmutable]_vars

-----------------------------------------------------------------------------
(* Registrations in flight together                                        *)

RacingUsers ==
    { [username |-> "alice", email |-> "alice@x.com", password |-> "pw-a"],
      [username |-> "alice", email |-> "other@x.com", password |-> "pw-b"],
      [username |-> "carol", email |-> "alice@x.com", password |-> "pw-a"] }

NextRegister ==
    \/ \E t \in 1..MaxRegistrations, user_data \in RacingUsers :
          Accept(t, Request("POST", V1Path(<<"/", "auth", "/", "register">>),
                            API_KEY, user_data))
    \/ \E t \in DOMAIN tasks : Step(t)

SpecRegister == Init /\ [][NextRegister]_vars

-----------------------------------------------------------------------------
(* Technicians and toolboxes created and updated by requests in flight     *)
(* together                                                                *)

\* the handlers of the requests in flight
InFlight == {tasks[t].handler : t \in DOMAIN tasks}

\* a step on technicians and a step on toolboxes touch different tables and
\* commute, so requests are taken in flight together per table
NextConstraint ==
    \/ \E t \in 1..MaxWriters :
          \/ /\ InFlight \subseteq {"create_technician", "update_technician"}
             /\ \/ \E technician_data \in SomeTechnicians :
                      Accept(t, Request("POST", V1Path(<<"/", "technicians">>),
                                        API_KEY, technician_data))
                \/ \E id \in DOMAIN technicians :
                      Accept(t, Request("PUT", V1Path(<<"/", "technicians", "/", id>>),
                                        API_KEY, [nfc_card_uid |-> "04:BB"]))
          \/ /\ InFlight \subseteq {"create_toolbox", "update_toolbox"}
             /\ \/ Accept(t, Request("POST", V1Path(<<"/", "toolboxes">>), API_KEY,
                                     [name |-> "TBX-2", raspberry_pi_serial |-> None,
                                      image_url |-> NoneStr]))
                \/ \E id \in DOMAIN toolboxes :
                      Accept(t, Request("PUT", V1Path(<<"/", "toolboxes", "/", id>>),
                                        API_KEY, [name |-> "TBX-1"]))
    \/ \E t \in DOMAIN tasks : Step(t)

SpecConstraint == Init /\ [][NextConstraint]_vars

-----------------------------------------------------------------------------
(* Access logs written while toolboxes and technicians are deleted         *)

\* rows made and files stored
ParentRows == seq.technicians + seq.toolboxes + seq.files + seq.access_logs

NextParents ==
    \/ /\ ParentRows < MaxParentRows
       /\ tasks = NoTasks
       /\ \/ CreateTechnician(API_KEY, [nfc_card_uid |-> "04:AA", employee_id |-> "8821"])
          \/ \E toolbox_data \in ToolboxInputs(UploadedUrls \union {NoneStr}) :
                /\ toolbox_data.name = "TBX-1"
                /\ CreateToolbox(API_KEY, toolbox_data)
          \/ UploadImage(API_KEY, PngFile, <<"toolboxes">>)
    \/ \E t \in 1..MaxInFlight :
          \/ /\ ParentRows < MaxParentRows
             /\ \E log_data \in LogInputs(DOMAIN toolboxes, DOMAIN technicians, {0}) :
                   Accept(t, Request("POST", V1Path(<<"/", "access-logs">>),
                                     API_KEY, log_data))
          \/ \E id \in DOMAIN toolboxes :
                Accept(t, Request("DELETE", V1Path(<<"/", "toolboxes", "/", id>>),
                                  API_KEY, NoneRec))
    \/ \E id \in DOMAIN technicians : DeleteTechnician(API_KEY, id)
    \/ \E t \in DOMAIN tasks : Step(t)

SpecParents == Init /\ [][NextParents]_vars

-----------------------------------------------------------------------------
(* Uploads in flight together                                              *)

\* two uploads that declare one filename and carry different bytes, and a
\* text file
RacingFiles ==
    { [filename |-> <<"photo", ".png">>, contents |-> contents, content_type |-> content_type] :
        contents \in { <<"b1">>, <<"b2", "b3">> }, content_type \in {"image/png"} }
    \union { [filename |-> <<"notes", ".txt">>, contents |-> <<"b4">>,
              content_type |-> "text/plain"] }

NextUploads ==
    \/ /\ seq.files < MaxRacingUploads
       /\ \E t \in 1..MaxUploadsInFlight, file \in RacingFiles, subfolder \in Subfolders :
             Accept(t, Request("POST", V1Path(<<"/", "images", "/", "upload">>), API_KEY,
                               [file |-> file, subfolder |-> subfolder]))
    \/ \E t \in DOMAIN tasks : Step(t)

SpecUploads == Init /\ [][NextUploads]_vars

-----------------------------------------------------------------------------
(* The Raspberry Pi client beside the other clients                        *)

\* rows made and files stored
PiRows == seq.technicians + seq.toolboxes + seq.access_logs + seq.files

\* what a script passes to log_access
PiCalls ==
    { [technician_id |-> technician_id, toolbox_id |-> toolbox_id, action_type |-> "close",
       condition_image_path |-> condition_image_path] :
        technician_id \in DOMAIN technicians, toolbox_id \in DOMAIN toolboxes,
        condition_image_path \in {NoneStr, <<"toolbox_condition", ".jpg">>} }

NextPi ==
    \/ /\ PiRows < MaxPiRows
       /\ \/ CreateTechnician(API_KEY, [nfc_card_uid |-> "04:AA", employee_id |-> "8821"])
          \/ CreateToolbox(API_KEY, [name |-> "TBX-1", raspberry_pi_serial |-> None,
                                     image_url |-> NoneStr])
          \/ \E nfc_uid \in {"04:AA", "04:EE"},
                toolbox_id \in DOMAIN toolboxes \union {"your-toolbox-id"} :
                PiBegin("health", nfc_uid, toolbox_id, NoneRec, "caller")
          \/ \E call \in PiCalls :
                PiBegin(IF call.condition_image_path = NoneStr THEN "post" ELSE "upload",
                        None, call.toolbox_id, call, "script")
    \/ handle_toolbox_open_step
    \/ log_access_step
    \/ \E id \in DOMAIN technicians : DeleteTechnician(API_KEY, id)

SpecPi == Init /\ [][NextPi]_vars

-----------------------------------------------------------------------------
(* Uploads by declared filename                                            *)

NextSave ==
    /\ seq.files < MaxSaves
    /\ \E file \in DeclaredFiles, subfolder \in Subfolders :
          UploadImage(API_KEY, file, subfolder)

SpecSave == Init /\ [][NextSave]_vars

-----------------------------------------------------------------------------
(* Technicians looked up by the UID of their NFC card                      *)

NextNfc ==
    \/ /\ seq.technicians < MaxNfcRows
       /\ \E technician_data \in SomeTechnicians :
             CreateTechnician(API_KEY, technician_data)
    \/ \E id \in TechnicianIds, technician_data \in TechnicianUpdates :
          UpdateTechnician(API_KEY, id, technician_data)
    \/ \E nfc_uid \in NfcUids : GetTechnicianByNfc(API_KEY, nfc_uid)

SpecNfc == Init /\ [][NextNfc]_vars

-----------------------------------------------------------------------------
(* Technicians and toolboxes updated, over a running clock                 *)

\* rows made and minutes gone by
UpdateSteps == seq.technicians + seq.toolboxes + now

NextUpdate ==
    \/ /\ UpdateSteps < MaxUpdateSteps
       /\ \/ \E technician_data \in SomeTechnicians :
                CreateTechnician(API_KEY, technician_data)
          \/ \E toolbox_data \in ToolboxInputs({NoneStr}) :
                CreateToolbox(API_KEY, toolbox_data)
          \/ Advance(1)
    \/ \E id \in TechnicianIds, technician_data \in TechnicianUpdates :
          UpdateTechnician(API_KEY, id, technician_data)
    \/ \E id \in ToolboxIds, toolbox_data \in ToolboxUpdates :
          UpdateToolbox(API_KEY, id, toolbox_data)

SpecUpdate == Init /\ [][NextUpdate]_vars

-----------------------------------------------------------------------------
(* Rows asked for, updated and deleted by id, ids no row has among them    *)

NextById ==
    \/ /\ Draws < MaxByIdRows
       /\ \/ \E technician_data \in SomeTechnicians :
                CreateTechnician(API_KEY, technician_data)
          \/ \E toolbox_data \in ToolboxInputs(UploadedUrls \union {NoneStr}) :
                CreateToolbox(API_KEY, toolbox_data)
          \/ \E log_data \in LogInputs(DOMAIN toolboxes, DOMAIN technicians, {0}) :
                CreateAccessLog(API_KEY, log_data)
          \/ UploadImage(API_KEY, PngFile, <<"toolboxes">>)
    \/ \E id \in TechnicianIds : UpdateTechnician(API_KEY, id, [status |-> "inactive"])
    \/ \E id \in TechnicianIds : DeleteTechnician(API_KEY, id)
    \/ \E id \in ToolboxIds : GetToolbox(API_KEY, id)
    \/ \E id \in ToolboxIds : UpdateToolbox(API_KEY, id, [status |-> "maintenance"])
    \/ \E id \in ToolboxIds : DeleteToolbox(API_KEY, id, FALSE)
    \/ \E id \in LogIds : DeleteAccessLog(API_KEY, id)

SpecById == Init /\ [][NextById]_vars

-----------------------------------------------------------------------------
(* The cascade from a technician to its access logs                        *)

NextCascade ==
    \/ /\ seq.technicians + seq.toolboxes + seq.access_logs < MaxCascadeRows
       /\ \/ \E technician_data \in SomeTechnicians :
                CreateTechnician(API_KEY, technician_data)
          \/ CreateToolbox(API_KEY, [name |-> "TBX-1", raspberry_pi_serial |-> None,
                                     image_url |-> NoneStr])
          \/ \E log_data \in LogInputs(DOMAIN toolboxes, TechnicianIds, {0}) :
                CreateAccessLog(API_KEY, log_data)
    \/ \E id \in TechnicianIds : DeleteTechnician(API_KEY, id)

SpecCascade == Init /\ [][NextCascade]_vars

-----------------------------------------------------------------------------
(* Access logs made at different minutes, and listed                       *)

\* rows made and minutes gone by
LogSteps == seq.technicians + seq.toolboxes + seq.access_logs + now

NextLogs ==
    \/ /\ LogSteps < MaxLogSteps
       /\ \/ /\ now = 0
             /\ \E technician_data \in SomeTechnicians :
                   CreateTechnician(API_KEY, technician_data)
          \/ /\ now = 0
             /\ CreateToolbox(API_KEY, [name |-> "TBX-1", raspberry_pi_serial |-> None,
                                        image_url |-> NoneStr])
          \/ \E log_data \in LogInputs(DOMAIN toolboxes, DOMAIN technicians, {0}) :
                CreateAccessLog(API_KEY, log_data)
          \/ Advance(1)
    \/ \E query \in LogQueries : GetAccessLogs(API_KEY, query)

SpecLogs == Init /\ [][NextLogs]_vars

-----------------------------------------------------------------------------
(* Uniqueness: creates that repeat a value of a unique column              *)

\* toolboxes with and without a Raspberry Pi serial
SerialToolboxes ==
    { [name |-> name, raspberry_pi_serial |-> serial, image_url |-> NoneStr] :
        name \in {"TBX-1", "TBX-2"}, serial \in {None, "RPI-1"} }

NextUnique ==
    /\ Draws < MaxUniqueRows
    /\ \/ \E user_data \in RegisterInputs : Register(API_KEY, user_data)
       \/ \E technician_data \in TechnicianInputs :
             CreateTechnician(API_KEY, technician_data)
       \/ \E toolbox_data \in SerialToolboxes : CreateToolbox(API_KEY, toolbox_data)

SpecUnique == Init /\ [][NextUnique]_vars

-----------------------------------------------------------------------------
(* Claims about authentication, checked under SpecAuth *)

\* the user a login or register body names, in the table as it is
UserNamed(username) == First(UsersWhere("username", username))

\* C1: a register request whose username or email is that of a user already
\* in the table is answered 400, and the users table is left as it was: no
\* row added, none modified.
C1_DuplicateRegistrationRejected ==
    [][ (/\ resp'.handler = "register"
         /\ \E id \in DOMAIN users :
               \/ users[id].username = resp'.request.body.username
               \/ users[id].email = resp'.request.body.email)
        => (resp'.status = 400 /\ users' = users) ]_vars

\* a registration was refused for its email alone, with a user in the table
C1_Witness ==
    /\ resp.handler = "register"
    /\ resp.status = 400
    /\ resp.detail = "Email already registered"
    /\ UsersWhere("username", resp.request.body.username) = {}
    /\ UsersWhere("email", resp.request.body.email) # {}

\* what the client holds resolves back to the user it names
TokenResolves(pair) ==
    get_current_user(pair.access_token) =
        [status |-> 200, detail |-> "", user |-> pair.access_token.sub]

\* a login of an active user with the right password is answered with a
\* token pair whose subjects are that user's id
LoginReturnsSubject ==
    (resp.handler = "login") =>
        LET u == UserNamed(resp.request.body.username)
        IN  (/\ u # None
             /\ verify_password(resp.request.body.password, users[u].password_hash)
             /\ users[u].is_active)
            => /\ resp.status = 200
               /\ resp.body.access_token.sub = u
               /\ resp.body.refresh_token.sub = u
               /\ resp.body.access_token.type = "access"
               /\ resp.body.refresh_token.type = "refresh"
               /\ issued = resp.body

\* C4 as stated: the access token of a login resolves, through
\* get_current_user, to the user who logged in for as long as that user
\* exists and is active.
C4_Original ==
    /\ LoginReturnsSubject
    /\ issued # NoneRec =>
          LET u == issued.access_token.sub
          IN  (u \in DOMAIN users /\ users[u].is_active) => TokenResolves(issued)

\* C4, amended: the access token of a login resolves, through
\* get_current_user, to the user who logged in for as long as that user
\* exists and is active and the access token has not expired.
C4_LoginTokenResolvesUntilExpiry ==
    /\ LoginReturnsSubject
    /\ issued # NoneRec =>
          LET u == issued.access_token.sub
          IN  (u \in DOMAIN users /\ users[u].is_active
                 /\ ~Expired(issued.access_token))
              => TokenResolves(issued)

\* the second of two users logged in, time has passed without the token
\* expiring, and get_current_user was just applied to it
C4_Witness ==
    /\ issued # NoneRec
    /\ resp.handler = "get_current_user"
    /\ resp.request.body.token = issued.access_token
    /\ resp.status = 200
    /\ resp.body.user = "user-2"
    /\ now > users["user-2"].last_login
    /\ Cardinality(DOMAIN users) = 2

\* C5: a login for an unknown username, with a wrong password or for an
\* inactive account is answered 401 without tokens and changes no row; and
\* last_login changes only in a successful login, only for its user.
C5_FailedLoginIssuesNothing ==
    [][ /\ (resp'.handler = "login") =>
              LET u == UserNamed(resp'.request.body.username)
              IN  (\/ u = None
                   \/ ~verify_password(resp'.request.body.password,
                                       users[u].password_hash)
                   \/ ~users[u].is_active)
                  => /\ resp'.status = 401
                     /\ resp'.body = NoneRec
                     /\ users' = users
                     /\ issued' = issued
        /\ \A id \in DOMAIN users :
              users'[id].last_login # users[id].last_login
              => /\ resp'.handler = "login"
                 /\ resp'.status = 200
                 /\ resp'.body.access_token.sub = id ]_vars

\* an inactive account with the right password was refused, in a table
\* where an earlier login had stamped last_login
C5_Witness ==
    /\ resp.handler = "login"
    /\ resp.status = 401
    /\ resp.detail = "User account is inactive"
    /\ \E id \in DOMAIN users :
          /\ users[id].username = resp.request.body.username
          /\ users[id].last_login # NoTime
          /\ ~users[id].is_active

-----------------------------------------------------------------------------
(* Claims about the store, checked under SpecStore *)

\* C2: a create_access_log request whose toolbox_id or technician_id names
\* no row is answered 404 and no access-log row is created.
C2_AccessLogNeedsParents ==
    [][ (/\ resp'.handler = "create_access_log"
         /\ \/ resp'.request.body.toolbox_id \notin DOMAIN toolboxes
            \/ resp'.request.body.technician_id \notin DOMAIN technicians)
        => (resp'.status = 404 /\ access_logs' = access_logs) ]_vars

\* a log for a toolbox that exists and a technician that does not was
\* refused, in a store that holds a technician and a log
C2_Witness ==
    /\ resp.handler = "create_access_log"
    /\ resp.status = 404
    /\ resp.detail = "Technician not found"
    /\ resp.request.body.toolbox_id \in DOMAIN toolboxes
    /\ technicians # EmptyTable
    /\ access_logs # EmptyTable

\* the file of the upload directory a toolbox's image_url names
ImageFile(url) == Normalize(<<>>, PathJoin(UPLOAD_DIR, StripUploads(url)))

\* the toolbox a DELETE /api/v1/toolboxes/{id} request names
DeletedToolbox(request) == request.path[Len(request.path)]

\* C6 as stated: after a successful delete_toolbox of t no inventory item
\* and no access log of t remains, and the file t's image_url named is no
\* longer stored.
C6_Original ==
    [][ (/\ resp'.handler = "delete_toolbox"
         /\ resp'.status = 200
         /\ DeletedToolbox(resp'.request) \in DOMAIN toolboxes)
        => LET t == DeletedToolbox(resp'.request)
           IN  /\ Where(inventory_items', "toolbox_id", t) = {}
               /\ Where(access_logs', "toolbox_id", t) = {}
               /\ toolboxes[t].image_url # NoneStr
                  => ImageFile(toolboxes[t].image_url) \notin DOMAIN fs'.files ]_vars

\* C6, the part the code keeps: the rows of t are gone, and the image file
\* is gone unless the operating system refused the unlink, which
\* delete_image swallows and delete_toolbox does not look at.
C6_CascadeHolds ==
    [][ (/\ resp'.handler = "delete_toolbox"
         /\ resp'.status = 200
         /\ DeletedToolbox(resp'.request) \in DOMAIN toolboxes)
        => LET t == DeletedToolbox(resp'.request)
           IN  /\ t \notin DOMAIN toolboxes'
               /\ Where(inventory_items', "toolbox_id", t) = {}
               /\ Where(access_logs', "toolbox_id", t) = {}
               /\ \/ toolboxes[t].image_url = NoneStr
                  \/ ImageFile(toolboxes[t].image_url) \notin DOMAIN fs'.files
                  \/ fs' = fs ]_vars

-----------------------------------------------------------------------------
(* Claims about the dashboard, checked under SpecDash *)

LogsToday == {id \in DOMAIN access_logs : Date(access_logs[id].timestamp) = Date(now)}

\* C7: with N access logs timestamped in the current UTC day, made by K
\* distinct technicians, the statistics give total_checkouts_today = N and
\* active_technicians = K.
C7_TodayCounts ==
    (resp.handler = "get_dashboard_stats" /\ resp.status = 200) =>
        LET N == Cardinality(LogsToday)
            K == Cardinality({t \in DOMAIN technicians :
                                \E id \in LogsToday : access_logs[id].technician_id = t})
        IN  /\ resp.body.total_checkouts_today = N
            /\ resp.body.active_technicians = K

\* two logs today by two technicians, and a third log of an earlier day
C7_Witness ==
    /\ resp.handler = "get_dashboard_stats"
    /\ resp.body.total_checkouts_today = 2
    /\ resp.body.active_technicians = 2
    /\ Cardinality(DOMAIN access_logs) = 3

LogsWithMissing == {id \in DOMAIN access_logs : access_logs[id].items_missing > 0}

C9_Original ==
    (resp.handler = "get_dashboard_stats" /\ resp.status = 200 /\ LogsToday = {}) =>
        /\ resp.body.total_checkouts_today = 0
        /\ resp.body.missing_items = 0
        /\ resp.body.active_technicians = 0

\* C9, what the code keeps: on such a day the two counters the code filters
\* by date are 0; missing_items is not filtered by date
C9_DayCountersZero ==
    (resp.handler = "get_dashboard_stats" /\ resp.status = 200 /\ LogsToday = {}) =>
        /\ resp.body.total_checkouts_today = 0
        /\ resp.body.active_technicians = 0

-----------------------------------------------------------------------------
(* Claims about the gate, checked under SpecGate *)

HttpMethods == {"GET", "POST", "PUT", "DELETE"}     \* all but OPTIONS

\* the request was refused by the gate: no handler ran, nothing changed
RefusedByGate ==
    /\ resp'.status = 401
    /\ resp'.detail = "Invalid or missing API key"
    /\ resp'.handler = "none"
    /\ store' = store
    /\ fs' = fs
    /\ seq' = seq

\* C3 as stated: a request outside the listed public paths, not an OPTIONS,
\* whose key is missing or wrong, is refused.
C3_Original ==
    [][ (/\ resp'.request.method \in HttpMethods
         /\ resp'.request.key # API_KEY
         /\ resp'.request.path \notin public_paths
         /\ ~StartsWith(resp'.request.path, UPLOADS_PREFIX))
        => RefusedByGate ]_vars

\* C3: a request outside the public paths, which include every path that
\* begins with /api/v1/openapi.json, not an OPTIONS, whose key is missing or
\* wrong, is answered 401 "Invalid or missing API key", reaches no handler
\* and changes neither the store nor the file system.
C3_GateRefusesWithoutKey ==
    [][ (/\ resp'.request.method \in HttpMethods
         /\ resp'.request.key # API_KEY
         /\ resp'.request.path \notin public_paths
         /\ ~StartsWith(resp'.request.path, UPLOADS_PREFIX)
         /\ ~StartsWith(resp'.request.path, OpenapiPath))
        => RefusedByGate ]_vars

\* a DELETE of a toolbox that exists, sent with a wrong key, was refused
C3_Witness ==
    /\ resp.status = 401
    /\ resp.handler = "none"
    /\ resp.request.method = "DELETE"
    /\ resp.request.key = "wrong-key"
    /\ DeletedToolbox(resp.request) \in DOMAIN toolboxes
    /\ fs.files # <<>>

-----------------------------------------------------------------------------
(* Claims about images, checked under SpecImages *)

\* C10 as stated: a GET of the file_path an upload just returned answers
\* the uploaded bytes, and a GET of a path a delete_image just deleted
\* answers 404.
C10_Original ==
    [][ /\ (/\ resp.handler = "upload_image"
            /\ resp.status = 200
            /\ resp'.request.method = "GET"
            /\ resp'.request.path = resp.body.file_path)
           => (/\ resp'.status = 200
               /\ resp'.body.content = resp.request.body.file.contents)
        /\ (/\ resp.handler = "delete_image"
            /\ resp.status = 200
            /\ resp'.request.method = "GET"
            /\ resp'.request.path = resp.request.body.file_path)
           => resp'.status = 404 ]_vars

\* C10, what the code keeps: the round trip of an upload into a subfolder
\* that is one path segment
C10_RoundTripOneSegment ==
    [][ /\ (/\ resp.handler = "upload_image"
            /\ resp.status = 200
            /\ Len(PathParts(resp.request.body.subfolder)) = 1
            /\ Len(Split(resp.request.body.subfolder)) = 1
            /\ resp'.request.method = "GET"
            /\ resp'.request.path = resp.body.file_path)
           => (/\ resp'.status = 200
               /\ resp'.body.content = resp.request.body.file.contents)
        /\ (/\ resp.handler = "delete_image"
            /\ resp.status = 200
            /\ resp'.request.method = "GET"
            /\ resp'.request.path = resp.request.body.file_path)
           => resp'.status = 404 ]_vars

-----------------------------------------------------------------------------
(* More claims about authentication, checked under SpecAuth *)

\* the token passes verification: signed with the key and not expired
ValidToken(token) == token.sig = SECRET_KEY /\ now <= token.exp

\* C14: get_current_user answers 401 when the token does not verify, when
\* the payload has no subject, when no user has the subject as id and when
\* that user is inactive; it returns a user, the one the subject names, in
\* the one remaining case.
C14_UnauthorizedUnlessValidActive ==
    resp.handler = "get_current_user" =>
        LET token == resp.request.body.token
            resolves == /\ ValidToken(token)
                        /\ token.sub # None
                        /\ token.sub \in DOMAIN users
                        /\ users[token.sub].is_active
        IN  /\ resp.status \in {200, 401}
            /\ resp.status = 200 <=> resolves
            /\ resp.status = 200 => resp.body.user = token.sub
            /\ resp.status = 401 => resp.body.user = None

\* the token login issued, still valid, of a user since made inactive
C14_Witness ==
    /\ resp.handler = "get_current_user"
    /\ resp.status = 401
    /\ resp.detail = "User not found or inactive"
    /\ issued # NoneRec
    /\ resp.request.body.token = issued.access_token
    /\ ValidToken(resp.request.body.token)
    /\ resp.request.body.token.sub \in DOMAIN users

-----------------------------------------------------------------------------
(* More claims about images, checked under SpecImages *)

\* C11 as stated: an upload whose content type is neither image/jpeg nor
\* image/png is answered 400 and writes no file.
C11_Original ==
    [][ (/\ resp'.handler = "upload_image"
         /\ resp'.request.body.file.content_type \notin {"image/jpeg", "image/png"})
        => (resp'.status = 400 /\ fs' = fs /\ seq' = seq) ]_vars

\* C11: an upload is accepted only when its content type is image/jpeg,
\* image/png or image/jpg; for every other content type it is answered 400
\* and no file is written.
C11_OnlyImagesAccepted ==
    [][ resp'.handler = "upload_image" =>
        IF resp'.request.body.file.content_type
              \in {"image/jpeg", "image/png", "image/jpg"}
        THEN resp'.status # 400
        ELSE resp'.status = 400 /\ fs' = fs /\ seq' = seq ]_vars

\* a text file was refused while an image uploaded before is stored
C11_Witness ==
    /\ resp.handler = "upload_image"
    /\ resp.status = 400
    /\ resp.request.body.file.content_type = "text/plain"
    /\ fs.files # <<>>

\* C20: delete_image answers 200 exactly when a file was stored at the path
\* the URL resolves to and the request removed it, that file and nothing
\* else; when the file is absent or the removal fails it answers 404 and the
\* file system is as it was; it never answers anything else.
C20_DeleteImageReportsRemoval ==
    [][ resp'.handler = "delete_image" =>
        LET target == ImageFile(resp'.request.body.file_path)
        IN  /\ resp'.status \in {200, 404}
            /\ resp'.status = 200 <=>
                  (target \in DOMAIN fs.files /\ target \notin DOMAIN fs'.files)
            /\ resp'.status = 200 =>
                  /\ DOMAIN fs'.files = DOMAIN fs.files \ {target}
                  /\ \A q \in DOMAIN fs'.files : fs'.files[q] = fs.files[q]
                  /\ fs'.dirs = fs.dirs
            /\ resp'.status = 404 => fs' = fs ]_vars

\* the removal of a stored file failed: 404, and the file is still there
C20_Witness ==
    /\ resp.handler = "delete_image"
    /\ resp.status = 404
    /\ resp.detail = "Image not found"
    /\ ImageFile(resp.request.body.file_path) \in DOMAIN fs.files

-----------------------------------------------------------------------------
(* More claims about the gate, checked under SpecGate *)

\* the handler of each health path
HealthHandlers ==
    (<<"/", "up">> :> "healthcheck") @@ (<<"/", "health">> :> "health_check")
    @@ (<<"/">> :> "root")

\* C19: GET /up, GET /health and GET / are answered by their handlers,
\* whether the X-API-Key header is absent, wrong or correct.
C19_HealthAlwaysPublic ==
    [][ (/\ resp'.request.method = "GET"
         /\ resp'.request.path \in DOMAIN HealthHandlers)
        => (/\ resp'.handler = HealthHandlers[resp'.request.path]
            /\ resp'.status = 200) ]_vars

\* GET /health with a wrong key was answered by health_check
C19_Witness ==
    /\ resp.request.method = "GET"
    /\ resp.request.path = <<"/", "health">>
    /\ resp.request.key = "wrong-key"
    /\ resp.handler = "health_check"
    /\ resp.status = 200

-----------------------------------------------------------------------------
(* Claims about uniqueness, checked under SpecUnique *)

\* the create request repeats a value of a unique column of its table
Duplicates(handler, data) ==
    CASE handler = "create_technician" ->
            \/ Where(technicians, "nfc_card_uid", data.nfc_card_uid) # {}
            \/ Where(technicians, "employee_id", data.employee_id) # {}
      [] handler = "create_toolbox" ->
            \/ Where(toolboxes, "name", data.name) # {}
            \/ /\ data.raspberry_pi_serial # None
               /\ Where(toolboxes, "raspberry_pi_serial", data.raspberry_pi_serial) # {}
      [] handler = "register" ->
            \/ UsersWhere("username", data.username) # {}
            \/ UsersWhere("email", data.email) # {}
      [] OTHER -> FALSE

\* C12 as stated: a create request that repeats a technician's nfc_card_uid
\* or employee_id, a toolbox's name or serial, or a user's username or email
\* is answered 400, and nothing is stored.
C12_Original ==
    [][ Duplicates(resp'.handler, resp'.request.body)
        => (resp'.status = 400 /\ store' = store) ]_vars

\* C12, what the code keeps: every unique column but the toolbox serial is
\* checked before the insert and a duplicate is answered 400; a duplicate
\* serial is left to the table's constraint and is answered 500. Nothing is
\* stored either way.
C12_DuplicatesStoreNothing ==
    [][ Duplicates(resp'.handler, resp'.request.body)
        => /\ store' = store
           /\ resp'.status = IF /\ resp'.handler = "create_toolbox"
                                /\ Where(toolboxes, "name", resp'.request.body.name) = {}
                             THEN 500 ELSE 400 ]_vars


-----------------------------------------------------------------------------
(* Claims about the lookup by NFC UID, checked under SpecNfc *)

\* the last segment of the path of a request: the id or UID it names
Named(request) == request.path[Len(request.path)]

\* C13 as stated: get_technician_by_nfc(uid) returns the technician whose
\* nfc_card_uid is uid and never one with another UID, answers 404 when no
\* technician has that UID, and changes nothing in the store.
C13_Original ==
    [][ resp'.handler = "get_technician_by_nfc" =>
            LET found == Where(technicians, "nfc_card_uid", Named(resp'.request))
            IN  /\ store' = store
                /\ resp'.status = IF found = {} THEN 404 ELSE 200
                /\ found # {} => /\ resp'.body.id \in found
                                 /\ resp'.body = technicians[resp'.body.id] ]_vars

\* C13, what the code keeps: the lookup changes nothing, answers 404 exactly
\* when no technician has the UID, and never answers with another
\* technician; the technician that has the UID is returned unless its status
\* is NULL, and then the answer is 500.
C13_NeverAnother ==
    [][ resp'.handler = "get_technician_by_nfc" =>
            LET found == Where(technicians, "nfc_card_uid", Named(resp'.request))
            IN  /\ store' = store
                /\ resp'.status \in {200, 404, 500}
                /\ resp'.status = 404 <=> found = {}
                /\ resp'.status = 500 <=>
                      \E id \in found : technicians[id].status = None
                /\ resp'.status = 200 => /\ resp'.body.id \in found
                                         /\ resp'.body = technicians[resp'.body.id] ]_vars

-----------------------------------------------------------------------------
(* Claims about the updates, checked under SpecUpdate *)

\* the table a handler updates
TableOf(handler, technician_table, toolbox_table, log_table) ==
    IF handler \in {"update_technician", "delete_technician"} THEN technician_table
    ELSE IF handler \in {"get_toolbox", "update_toolbox", "delete_toolbox"}
    THEN toolbox_table
    ELSE log_table

\* the other tables, and the files
RestOf(handler, technician_table, toolbox_table, log_table) ==
    IF handler \in {"update_technician", "delete_technician"}
    THEN <<toolbox_table, log_table>>
    ELSE IF handler \in {"get_toolbox", "update_toolbox", "delete_toolbox"}
    THEN <<technician_table, log_table>>
    ELSE <<technician_table, toolbox_table>>

\* an update of a row the table has
UpdatesRow(answer, table) ==
    /\ answer.handler \in {"update_technician", "update_toolbox"}
    /\ Named(answer.request) \in DOMAIN table

RequiredOf(handler) ==
    IF handler = "update_technician" THEN {"nfc_card_uid", "employee_id"} ELSE {"name"}

\* the update supplies NULL for a required column, or for a unique column
\* the value another row has
Clashes(handler, table, id, data) ==
    \E field \in DOMAIN data \cap RequiredOf(handler) :
        \/ data[field] = None
        \/ \E other \in DOMAIN table \ {id} : table[other][field] = data[field]

-----------------------------------------------------------------------------
(* Claims about the cascade from a technician, checked under SpecCascade *)

\* C16: after a successful delete_technician of technician t no access log
\* with technician_id = t is in the store, and every access log of another
\* technician is in the store as it was.
C16_TechnicianLogsGo ==
    [][ (resp'.handler = "delete_technician" /\ resp'.status = 200) =>
            LET t == Named(resp'.request)
            IN  /\ Where(access_logs', "technician_id", t) = {}
                /\ DOMAIN access_logs' =
                       DOMAIN access_logs \ Where(access_logs, "technician_id", t)
                /\ \A id \in DOMAIN access_logs' : access_logs'[id] = access_logs[id] ]_vars

\* a technician with a log was deleted while another technician had a log:
\* the one log went, the other is there
C16_Witness ==
    /\ resp.handler = "delete_technician"
    /\ resp.status = 200
    /\ seq.access_logs = 2
    /\ Cardinality(DOMAIN access_logs) = 1
    /\ \A id \in DOMAIN access_logs : access_logs[id].technician_id \in DOMAIN technicians

-----------------------------------------------------------------------------
(* Claims about ids no row has, checked under SpecById *)

ByIdHandlers == {"update_technician", "delete_technician", "get_toolbox",
                 "update_toolbox", "delete_toolbox", "delete_access_log"}

-----------------------------------------------------------------------------
(* Claims about the list of access logs, checked under SpecLogs *)

\* the ids of the logs of an answer, in the order of the answer
IdsOf(logs) == [i \in DOMAIN logs |-> logs[i].id]

\* the logs that match the filters a query supplies; None is a filter absent
Matching(query) ==
    {id \in DOMAIN access_logs :
        /\ query.toolbox_id = None \/ access_logs[id].toolbox_id = query.toolbox_id
        /\ query.technician_id = None
              \/ access_logs[id].technician_id = query.technician_id}

\* positions skip .. skip+limit-1 of an order, the first position being 0
Positions(order, skip, limit) ==
    SubSeq(order, (IF skip < 0 THEN 0 ELSE skip) + 1,
                  IF skip + limit > Len(order) THEN Len(order) ELSE skip + limit)

\* C18 as stated: get_access_logs returns the logs that match the supplied
\* filters, all logs when a filter is absent, ordered by timestamp from
\* newest to oldest, restricted to positions skip .. skip+limit-1 of that
\* order.
C18_Original ==
    [][ resp'.handler = "get_access_logs" =>
            LET query == resp'.request.body
            IN  \E order \in OrderByTimestampDesc(Matching(query)) :
                    IdsOf(resp'.body.logs) = Positions(order, query.skip, query.limit) ]_vars

\* C18, what the code keeps when skip and limit are not negative and no
\* supplied filter is empty: the rows answered are stored logs that match the
\* filters, no row twice and none before a newer one; they are as many as the
\* matching logs have at positions skip .. skip+limit-1; no matching log left
\* out lies strictly between two answered in time; nothing is changed.
C18_PageOfNewestFirst ==
    [][ ( /\ resp'.handler = "get_access_logs"
          /\ resp'.request.body.skip >= 0
          /\ resp'.request.body.limit >= 0
          /\ resp'.request.body.toolbox_id # ""
          /\ resp'.request.body.technician_id # "" ) =>
            LET query == resp'.request.body
                logs == resp'.body.logs
                ids == {logs[i].id : i \in DOMAIN logs}
                rest == Cardinality(Matching(query)) - query.skip
            IN  /\ store' = store
                /\ resp'.status = 200
                /\ ids \subseteq Matching(query)
                /\ \A i \in DOMAIN logs : logs[i] = access_logs[logs[i].id]
                /\ \A i, j \in DOMAIN logs : i < j =>
                      /\ logs[i].id # logs[j].id
                      /\ logs[i].timestamp >= logs[j].timestamp
                /\ Len(logs) = IF rest < 0 THEN 0
                               ELSE IF rest < query.limit THEN rest ELSE query.limit
                /\ \A id \in Matching(query) \ ids :
                      \/ \A i \in DOMAIN logs : access_logs[id].timestamp >= logs[i].timestamp
                      \/ \A i \in DOMAIN logs : access_logs[id].timestamp <= logs[i].timestamp
                /\ Cardinality({id \in Matching(query) \ ids :
                                  \E i \in DOMAIN logs :
                                      access_logs[id].timestamp > logs[i].timestamp})
                       <= query.skip ]_vars


-----------------------------------------------------------------------------
(* Claims about save_image, checked under SpecSave *)

\* the name of the file a returned URL ends with, for an upload into subfolder
UniqueName(url, subfolder) ==
    SubSeq(url, Len(UPLOADS_PREFIX) + Len(subfolder) + 2, Len(url))

EndsWith(s, e) == Len(s) >= Len(e) /\ SubSeq(s, Len(s) - Len(e) + 1, Len(s)) = e

\* an upload answered 200 wrote its bytes to <root>/<subfolder>/<unique-name>,
\* a path that held no file, and returned /uploads/<subfolder>/<unique-name>
\* and the byte count; the name ends with extension
SavedAs(answer, before, after, extension) ==
    LET file == answer.request.body.file
        subfolder == answer.request.body.subfolder
        url == answer.body.file_path
        name == UniqueName(url, subfolder)
        path == Normalize(<<>>, PathJoin(UPLOAD_DIR, subfolder) \o <<name>>)
    IN  /\ StartsWith(url, UPLOADS_PREFIX \o subfolder \o <<"/">>)
        /\ Len(name) > Len(extension)
        /\ EndsWith(name, extension)
        /\ extension = <<>> => name[Len(name)] \notin ExtTokens
        /\ path \notin DOMAIN before.files
        /\ path \in DOMAIN after.files
        /\ after.files[path] = file.contents
        /\ \A other \in DOMAIN before.files : after.files[other] = before.files[other]
        /\ answer.body.file_size = Len(file.contents)

\* C21 as stated: save_image stores the bytes under
\* <root>/<subfolder>/<unique-name> and returns /uploads/<subfolder>/<unique-name>
\* with the byte count; <unique-name> ends with the extension of the declared
\* filename, or with .jpg when that filename has no extension or is missing.
C21_Original ==
    [][ (resp'.handler = "upload_image" /\ resp'.status = 200) =>
            LET filename == resp'.request.body.file.filename
            IN  SavedAs(resp', fs, fs',
                        IF filename = NoneStr \/ Suffix(filename) = <<>>
                        THEN <<".jpg">> ELSE Suffix(filename)) ]_vars

\* C21, what the code keeps: path, URL and byte count are as claimed; the
\* name ends with the extension of the declared filename, which is none when
\* the filename has none, and with .jpg only when the filename is missing
\* or empty.
C21_KeepsSuffix ==
    [][ (resp'.handler = "upload_image" /\ resp'.status = 200) =>
            LET filename == resp'.request.body.file.filename
            IN  SavedAs(resp', fs, fs',
                        IF filename \in {NoneStr, <<>>}
                        THEN <<".jpg">> ELSE Suffix(filename)) ]_vars


-----------------------------------------------------------------------------
(* Claims about the root of the image store, checked under SpecDisk *)

\* a file below the upload directory
UnderRoot(path) == Len(path) > Len(UPLOAD_DIR) /\ StartsWith(path, UPLOAD_DIR)

\* an answer of the storage service: a file removed, or a file served
TouchedFiles(answer, before, after) ==
    IF answer.handler = "delete_image" /\ answer.status = 200
    THEN DOMAIN before.files \ DOMAIN after.files
    ELSE IF answer.handler = "get_uploaded_file" /\ answer.status = 200
    THEN {Normalize(<<>>, PathJoin(UPLOAD_DIR,
                                   StripUploads(answer.request.path)))}
    ELSE {}

\* C24 as stated: for every relative URL given to delete_image or
\* get_file_path, with or without the /uploads/ prefix, absolute paths and
\* paths with ".." segments included, the file removed or the path returned
\* lies under the upload root.
C24_Original ==
    [][ \A path \in TouchedFiles(resp', fs, fs') : UnderRoot(path) ]_vars

\* the segments of a relative URL name nothing above the directory joined to
Plain(url) ==
    /\ url = <<>> \/ Head(url) # "/"
    /\ \A i \in DOMAIN Split(url) : Split(url)[i] # DOTDOT

\* C24, what the code keeps: a URL that, with the /uploads/ prefix stripped,
\* is not absolute and has no ".." segment, names a file under the root.
C24_PlainUrlsStayUnder ==
    [][ ( \/ /\ resp'.handler = "delete_image"
             /\ Plain(StripUploads(resp'.request.body.file_path))
          \/ /\ resp'.handler = "get_uploaded_file"
             /\ Plain(StripUploads(resp'.request.path)) )
        => \A path \in TouchedFiles(resp', fs, fs') : UnderRoot(path) ]_vars


-----------------------------------------------------------------------------
(* Claims about the life of an access log, checked under SpecImmutable *)

\* C27: from its creation to its deletion an access log keeps every field,
\* its timestamp included: a step leaves each log it does not delete as it
\* was, and a log a step creates has an id no log had before and the
\* server's time as its timestamp.
C27_LogsImmutable ==
    [][ /\ \A id \in DOMAIN access_logs \cap DOMAIN access_logs' :
              access_logs'[id] = access_logs[id]
        /\ \A id \in DOMAIN access_logs' \ DOMAIN access_logs :
              /\ id = Uuid("log-", seq'.access_logs)
              /\ seq'.access_logs = seq.access_logs + 1
              /\ access_logs'[id].timestamp = now ]_vars

\* a log made at minute 0 is as it was made, after a minute has gone by, a
\* PUT on it was refused and another log was deleted
C27_Witness ==
    /\ now = 1
    /\ resp.request.method = "PUT"
    /\ resp.status = 405
    /\ seq.access_logs > Cardinality(DOMAIN access_logs)
    /\ \E id \in DOMAIN access_logs : access_logs[id].timestamp = 0


-----------------------------------------------------------------------------
(* Claims about registrations in flight together, checked under            *)
(* SpecRegister                                                            *)

\* the registrations in flight that passed both checks and have not
\* committed
PastChecks == {t \in DOMAIN tasks : tasks[t].handler = "register" /\ tasks[t].pc = "commit"}

\* C25: the uniqueness check of register and its insert are not one atomic
\* step: the statement with which a registration passes a check stores no
\* user, and a user is stored only by a registration that had passed both
\* checks in an earlier step; so registrations of one username can all
\* stand past the check with none of them committed.
C25_CheckThenInsert ==
    [][ /\ (PastChecks' \ PastChecks # {}) => users' = users
        /\ users' # users =>
              \E t \in PastChecks : /\ t \notin DOMAIN tasks'
                                    /\ resp'.status = 200
                                    /\ resp'.body.username = tasks[t].request.body.username ]_vars

\* two registrations of one username have both passed the check and neither
\* has committed: no user is stored
C25_Witness ==
    /\ users = EmptyTable
    /\ \E t, u \in PastChecks :
          /\ t # u
          /\ tasks[t].request.body.username = tasks[u].request.body.username


-----------------------------------------------------------------------------
(* Claims about the unique columns, checked under SpecConstraint *)

\* the rows of a table that hold one value in a column
Sharing(table, column) ==
    {pair \in (DOMAIN table) \X (DOMAIN table) :
        /\ pair[1] # pair[2]
        /\ table[pair[1]][column] = table[pair[2]][column]}

\* C26: whatever creates and updates of technicians and toolboxes are in
\* flight together, no two technicians share an nfc_card_uid or an
\* employee_id and no two toolboxes share a name.
C26_UniqueColumnsHold ==
    /\ Sharing(technicians, "nfc_card_uid") = {}
    /\ Sharing(technicians, "employee_id") = {}
    /\ Sharing(toolboxes, "name") = {}

\* a create that had passed both of its checks was refused at its commit:
\* the table holds its nfc_card_uid in a row of another request
C26_Witness ==
    /\ resp.handler = "create_technician"
    /\ resp.status = 500
    /\ Where(technicians, "nfc_card_uid", resp.request.body.nfc_card_uid) # {}


-----------------------------------------------------------------------------
(* Claims about access logs and their parents, checked under SpecParents *)

\* C23, as claimed: whatever creates and deletes of technicians, toolboxes
\* and access logs are in flight together, every access log references a
\* toolbox and a technician that exist.
C23_Original ==
    \A id \in DOMAIN access_logs :
        /\ access_logs[id].toolbox_id \in DOMAIN toolboxes
        /\ access_logs[id].technician_id \in DOMAIN technicians

\* the toolbox deletions in flight that have deleted their row
RowDeleted == {t \in DOMAIN tasks : tasks[t].handler = "delete_toolbox" /\ tasks[t].pc \in {"delete", "image", "return"} /\ tasks[t].deleted}

\* C28: in no reachable state has a delete_toolbox deleted the row of a
\* toolbox with an image_url while it has not yet attempted to remove the
\* image file.
C28_ImageBeforeRow ==
    \A t \in RowDeleted :
        tasks[t].toolbox.image_url \notin {NoneStr, <<>>} => tasks[t].image_attempted

\* a delete_toolbox has attempted the removal of the image of its toolbox
\* and has then deleted the row
C28_Witness ==
    \E t \in RowDeleted :
        /\ tasks[t].toolbox.image_url \notin {NoneStr, <<>>}
        /\ tasks[t].image_attempted
        /\ AsId(tasks[t].params[1]) \notin DOMAIN toolboxes


-----------------------------------------------------------------------------
(* Claims about uploads in flight together, checked under SpecUploads *)

\* the uploads in flight that have drawn their name and not yet written
Writing == {t \in DOMAIN tasks : tasks[t].handler = "upload_image" /\ tasks[t].pc = "write"}

\* the file an upload in flight is about to write
Target(t) ==
    Normalize(<<>>, PathJoin(UPLOAD_DIR, tasks[t].request.body.subfolder)
                        \o <<tasks[t].unique_filename>>)

\* the answer to a GET of url, sent without a key
Served(url) ==
    LET r == route(Request("GET", url, None, NoneRec))
    IN  IF r.name = "get_uploaded_file"
        THEN get_uploaded_file_result(r.params[1], r.params[2])
        ELSE [status |-> 404, detail |-> "Not Found", body |-> NoneRec]

\* the uploads in flight write to pairwise distinct files, none of which
\* exists: no upload overwrites another
C22_DistinctPaths ==
    \A t \in Writing :
        /\ Target(t) \notin DOMAIN fs.files
        /\ \A u \in Writing \ {t} : Target(u) # Target(t)

\* C22, as claimed: uploads in flight together, into one subfolder and
\* under one declared filename too, are written to pairwise distinct paths,
\* none overwrites another, and the file_path an upload returns serves the
\* bytes of that upload.
C22_Original ==
    /\ C22_DistinctPaths
    /\ (resp.handler = "upload_image" /\ resp.status = 200)
          => /\ Served(resp.body.file_path).status = 200
             /\ Served(resp.body.file_path).body.content = resp.request.body.file.contents


-----------------------------------------------------------------------------
(* Claims about the Raspberry Pi client, checked under SpecPi *)

\* the client took this step
PiActs == pi' # pi

\* the POST of an access log
PostsLog(request) ==
    /\ request.method = "POST"
    /\ request.path = V1Path(<<"/", "access-logs">>)

\* C29: in handle_toolbox_open, when the card's UID matches no technician
\* the client posts an access_denied log for technician "unknown"; the
\* server answers that post 404, the client swallows the error, the flow
\* returns False and no access log is stored.
C29_DeniedAttemptLeavesNoLog ==
    [][ /\ (/\ PiActs
            /\ pi.pc = "identify"
            /\ Where(technicians, "nfc_card_uid", pi.nfc_uid) = {})
           => /\ pi'.pc = "post"
              /\ pi'.after = "denied"
              /\ pi'.call.technician_id = "unknown"
              /\ pi'.call.action_type = "access_denied"
              /\ pi'.call.toolbox_id = pi.toolbox_id
        /\ (/\ PiActs
            /\ pi.pc = "post"
            /\ pi.after = "denied")
           => /\ PostsLog(resp'.request)
              /\ resp'.request.body.technician_id = "unknown"
              /\ resp'.request.body.action_type = "access_denied"
              /\ resp'.status = 404
              /\ access_logs' = access_logs
              /\ pi'.pc = "done"
              /\ pi'.posts = 1
              /\ pi'.result = "False" ]_vars

\* a card no technician holds was read at a toolbox that exists, while a
\* technician is registered: the denied attempt was answered 404 for its
\* technician, and the flow returned False with no log stored
C29_Witness ==
    /\ pi.pc = "done"
    /\ pi.after = "denied"
    /\ pi.result = "False"
    /\ pi.nfc_uid = "04:EE"
    /\ resp.handler = "create_access_log"
    /\ resp.status = 404
    /\ resp.detail = "Technician not found"
    /\ technicians # EmptyTable
    /\ access_logs = EmptyTable

\* C30: log_access with a condition_image_path uploads the image first and
\* then posts the log; an upload that fails, before or after the server
\* answered, is not propagated: the log is posted all the same, once, and
\* its body has no condition_image_url.
C30_FailedUploadStillLogs ==
    [][ /\ (PiActs /\ pi.pc = "upload")
           => /\ pi'.pc = "post"
              /\ pi'.uploads = 1
              /\ pi'.posts = 0
              /\ (resp' = Idle \/ Raised(resp')) => pi'.condition_image_url = NoneStr
        /\ (PiActs /\ pi.pc = "post")
           => /\ PostsLog(resp'.request)
              /\ pi'.posts = 1
              /\ pi'.pc = "done"
              /\ pi.uploads = IF pi.call.condition_image_path = NoneStr THEN 0 ELSE 1
              /\ IF pi.condition_image_url = NoneStr
                 THEN "condition_image_url" \notin DOMAIN resp'.request.body
                 ELSE resp'.request.body.condition_image_url = pi.condition_image_url ]_vars

\* a log_access with a condition_image_path whose upload failed has posted
\* its log once, without a condition_image_url, and the log is stored
C30_Witness ==
    /\ pi.pc = "done"
    /\ pi.after = "script"
    /\ pi.call.condition_image_path # NoneStr
    /\ pi.condition_image_url = NoneStr
    /\ pi.uploads = 1
    /\ pi.posts = 1
    /\ resp.status = 200
    /\ PostsLog(resp.request)
    /\ "condition_image_url" \notin DOMAIN resp.request.body
    /\ pi.result \in DOMAIN access_logs

====
